---- MODULE Spec2Model ----
(***************************************************************************)
(* A model of the terraform-testing helpers (package testhelpers):         *)
(*   - the artifact cache: DownloadTerraformVersionE (terraform.go) and    *)
(*     DownloadProviderVersionE (providers.go), with extractAndWriteFile;  *)
(*   - the module metadata catalog: ModuleMetadataCatalog, its Resolve,    *)
(*     Init, SetRoot and GetModuleMetadataCatalog (providers.go);          *)
(*   - the module localizer: UpdateModuleSourcesToLocalPaths over          *)
(*     IterateTerraformInDirectory.                                        *)
(* Each subsystem has its own specification over the shared variables; a   *)
(* specification leaves the variables of the other subsystems at rest.     *)
(***************************************************************************)
EXTENDS Integers, Sequences, FiniteSets, TLC

(***************************************************************************)
(* Bounds of the model.                                                    *)
(***************************************************************************)
\* concurrent units (t.Run + t.Parallel subtests)
NProcs == 2
\* ensure calls one unit makes
MaxCalls == 2
\* ensure calls of all units together
MaxTotalCalls == 3
\* entries of the served archive
MaxEntries == 2
\* inode numbers of the modelled filesystem
MaxIno == 8

\* catalog calls one unit makes
MaxOps == 2
\* SetRoot calls of a run
MaxSetRoots == 1
\* "/"-separated segments of a source string
MaxSegs == 5
\* entries of a catalog given directly
MaxMeta == 2

\* temporary copies a unit may make
MaxCopies == 3
\* blocks of a file the claims look at
MaxBlocks == 5
\* versions in a release listing
MaxList == 3
MaxReleases == 3
MaxStamp == 3
PageLimit == 2
MaxFiles == 2

Procs == 1..NProcs
Inodes == 1..MaxIno

VARIABLES
    kind,       \* which ensure the run exercises: "terraform" or "provider"
    asked,      \* the cache key each unit calls it for
    archive,    \* the zip archive the release server serves: a sequence of entry names
    files,      \* the filesystem's regular files: path -> inode
    dirs,       \* the filesystem's directories: a set of paths
    data,       \* inode -> "free" | "empty" | "full"
    pc,         \* each unit's position in its ensure call
    lc,         \* each unit's local variables of the call
    budget,     \* ensure calls each unit may still start
    log,        \* the calls that returned, in order of return
    crashed,    \* the process panicked
    Meta,       \* mmc.Meta: the catalog's entry list
    mx,         \* mmc.mx: the RWMutex, its writer (0: none) and its readers
    init,       \* mmc.init
    root,       \* mmc.root
    repo,       \* root -> the metadata.json files the glob finds under it
    pool,       \* the source strings the run resolves
    cpc,        \* each unit's position in its catalog call
    cl,         \* each unit's local variables of the catalog call
    ops,        \* catalog calls each unit may still start
    rebuilds,   \* rebuilds started (Init reached mmc.Meta = make(...))
    setroots,   \* SetRoot calls made
    builtSince, \* rebuilds that succeeded since the last SetRoot (or the start)
    failed,     \* some Init returned an error
    disk,       \* directory -> its entries in directory order, each a file or a subdirectory
    lpc,        \* each unit's position in its localization
    stack,      \* each unit's frames of UpdateModuleSourcesToLocalPaths, innermost last
    ncopies,    \* temporary copies each unit made of catalog modules
    nwrites,    \* files each unit wrote back
    dst0,       \* each unit's working copy as it was made
    active,     \* the units the test driver starts
    events,     \* each unit's copies, returns of the recursion, rewrites and writes, in order
    listing,    \* the versions the release listing returns, in its order
    blocklist,  \* blockedTerraformVersions
    constraint, \* the module's required_version constraint
    clearsTail, \* the build's slices.Delete zeroes the elements it drops from the tail
    vop,        \* what the run calls: the driver, GetMatchingVersionsE or FilterMinorVersionsE
    vpc,        \* the position in it
    filtered,   \* what filterBlockedTerraformVersion returned
    matched,    \* what GetMatchingVersionsE returned
    grouped,    \* what FilterMinorVersionsE returned
    regrouped,  \* what FilterMinorVersionsE returned on its own output
    started,    \* the versions t.Run was called for, in order
    parsedVersion, \* what parseVersion returned
    relIndex,   \* the releases the index holds, in the order it pages through them
    pageReq,    \* req: the cursor of the next request, or none
    pageResult, \* result: the page received last
    allVersions, \* versions: the versions collected so far
    requested,  \* the cursors of the requests made, in order
    received,   \* the pages received, in order
    apc,        \* the position in GetAvailableVersionsE
    listed,     \* what GetAvailableVersionsE returned
    cfgDir,     \* the entries of the directory an update works on, in os.ReadDir's order
    lockFile,   \* the directory holds .terraform.lock.hcl
    dirWritable, \* entries of the directory can be removed
    update,     \* the update called and its arguments
    upc,        \* the position in it
    nextEntry,  \* the entry the loop of IterateTerraformInDirectory is at
    trail,      \* the reads, visits, writes and removals of the call, in order
    updateErr,  \* the call returned an error
    parsedFile  \* f and hasChanges: the tree of the file at hand, and whether to write it

ensureVars == <<kind, asked, archive, files, dirs, data, pc, lc, budget, log, crashed>>
cacheVars == <<kind, asked, archive, files, dirs, data, pc, lc, budget, log>>
catalogVars == <<Meta, mx, init, root, repo, pool, cpc, cl, ops, rebuilds, setroots, builtSince, failed>>
localVars == <<disk, lpc, stack, ncopies, nwrites, dst0, active, events>>
versionVars == <<listing, blocklist, constraint, clearsTail, vop, vpc, filtered, matched,
                 grouped, regrouped, started, parsedVersion>>
listVars == <<relIndex, pageReq, pageResult, allVersions, requested, received, apc, listed>>
editVars ==
    <<cfgDir, lockFile, dirWritable, update, upc, nextEntry, trail, updateErr, parsedFile>>
helperVars == <<versionVars, listVars, editVars>>
vars == <<ensureVars, catalogVars, localVars, helperVars>>

(***************************************************************************)
(* Paths are sequences of segments below the root.  filepath.Join cleans   *)
(* the joined path: "." is dropped and ".." removes the segment before it  *)
(* (nothing at the root).                                                  *)
(***************************************************************************)
RECURSIVE CleanFrom(_, _)
CleanFrom(done, rest) ==
    IF rest = <<>> THEN done
    ELSE IF Head(rest) = ".."
         THEN CleanFrom(IF done = <<>> THEN <<>> ELSE SubSeq(done, 1, Len(done) - 1),
                        Tail(rest))
    ELSE IF Head(rest) = "." THEN CleanFrom(done, Tail(rest))
    ELSE CleanFrom(Append(done, Head(rest)), Tail(rest))

Clean(path) == CleanFrom(<<>>, path)

Join(dst, name) == Clean(dst \o name)

\* strings.HasPrefix(path, filepath.Clean(dst)+"/") on a cleaned path
HasDirPrefix(path, dst) ==
    /\ Len(path) > Len(Clean(dst))
    /\ SubSeq(path, 1, Len(Clean(dst))) = Clean(dst)

\* filepath.Dir of a cleaned path
Dir(path) == SubSeq(path, 1, Len(path) - 1)

\* every directory os.MkdirAll(path) makes sure of
Ancestors(path) == {SubSeq(path, 1, n) : n \in 1..Len(path)}

Under(path, dir) == Len(path) > Len(dir) /\ SubSeq(path, 1, Len(dir)) = dir

\* the path with its prefix `from` replaced by `to`
Rebase(path, from, to) == to \o SubSeq(path, Len(from) + 1, Len(path))

(***************************************************************************)
(* The cache layout.                                                       *)
(***************************************************************************)
Home == <<"home">>
\* the key of a cache entry: the provider's name (none for terraform itself) and the version
CacheKey(name, version) == [name |-> name, version |-> version]
\* the key of the runs with one key
DefaultKey == CacheKey("aws", "1.0.0")
ProviderNames == {"aws", "random"}
VersionNames == {"1.0.0", "1.1.0"}
CacheKeys == {CacheKey(n, v) : n \in ProviderNames, v \in VersionNames}
\* "terraform_" + version
TfBinaryName(v) == IF v = "1.0.0" THEN "terraform_1.0.0" ELSE "terraform_1.1.0"
\* "terraform_" + version + "_binary.zip"
TfZipName(v) == IF v = "1.0.0" THEN "terraform_1.0.0_binary.zip" ELSE "terraform_1.1.0_binary.zip"
\* version + "_binary.zip"
PvZipName(v) == IF v = "1.0.0" THEN "1.0.0_binary.zip" ELSE "1.1.0_binary.zip"
\* "bin_" + version
StagingName(v) == IF v = "1.0.0" THEN "bin_1.0.0" ELSE "bin_1.1.0"
\* terraform.go: ~/.terraform.versions
TfDownloadDirectory == Home \o <<".terraform.versions">>
TfBinaryPathOf(k) == TfDownloadDirectory \o <<TfBinaryName(k.version)>>
TfZipPathOf(k) == TfDownloadDirectory \o <<TfZipName(k.version)>>
TfZipExtractPathOf(k) == TfDownloadDirectory \o <<StagingName(k.version)>>
TfBinaryPath == TfBinaryPathOf(DefaultKey)
TfZipPath == TfZipPathOf(DefaultKey)
TfZipExtractPath == TfZipExtractPathOf(DefaultKey)
\* providers.go: ~/.terraform.d/plugin-cache
GetBinaryPath == Home \o <<".terraform.d", "plugin-cache">>
\* sourceAddress is "hashicorp/" + providerName in every call of the package
PvBinaryPathOf(k) == GetBinaryPath \o <<"registry.terraform.io", "hashicorp", k.name, k.version>>
\* the archive's path has the version in it and not the provider
PvZipPathOf(k) == <<"tmp", PvZipName(k.version)>>
\* and so has the staging directory's
PvZipExtractPathOf(k) == GetBinaryPath \o <<StagingName(k.version)>>
PvPlatformPathOf(k) == PvBinaryPathOf(k) \o <<"linux_amd64">>
PvBinaryPath == PvBinaryPathOf(DefaultKey)
PvZipPath == PvZipPathOf(DefaultKey)
PvZipExtractPath == PvZipExtractPathOf(DefaultKey)
PvPlatformPath == PvPlatformPathOf(DefaultKey)

BinaryPathOf(k) == IF kind = "terraform" THEN TfBinaryPathOf(k) ELSE PvBinaryPathOf(k)
ZipPathOf(k) == IF kind = "terraform" THEN TfZipPathOf(k) ELSE PvZipPathOf(k)
ZipExtractPathOf(k) == IF kind = "terraform" THEN TfZipExtractPathOf(k) ELSE PvZipExtractPathOf(k)
BinaryPath == BinaryPathOf(DefaultKey)
ZipPath == ZipPathOf(DefaultKey)
ZipExtractPath == ZipExtractPathOf(DefaultKey)
NoPath == <<>>

(***************************************************************************)
(* The archives a release server may serve.                                *)
(***************************************************************************)
EntryNames ==
    { <<"terraform">>,
      <<"LICENSE">>,
      <<"..", "..", "etc", "passwd">>,
      <<"doc", "..", "..", "bin_1.0.0x">> }

Archives == UNION {[1..n -> EntryNames] : n \in 1..MaxEntries}

Escapes(dst, name) == ~HasDirPrefix(Join(dst, name), dst)

(***************************************************************************)
(* Inodes: a file keeps its inode over a rename and over O_TRUNC; an open  *)
(* descriptor keeps the inode alive after the path is unlinked.            *)
(***************************************************************************)
Used(f, l) ==
    {f[x] : x \in DOMAIN f}
      \cup {l[p].out : p \in Procs} \cup {l[p].rd : p \in Procs}
      \cup {l[p].wfd : p \in Procs}

GC(d, f, l) == [i \in Inodes |-> IF i \in Used(f, l) THEN d[i] ELSE "free"]

FreeIno(f, l) == CHOOSE i \in Inodes : i \notin Used(f, l) /\ \A j \in 1..(i - 1) : j \in Used(f, l)

\* os.Create / os.OpenFile(O_WRONLY|O_CREATE|O_TRUNC): the inode written to
OpenTrunc(path) == IF path \in DOMAIN files THEN files[path] ELSE FreeIno(files, lc)

WithFile(f, path, ino) == [x \in DOMAIN f \cup {path} |-> IF x = path THEN ino ELSE f[x]]

WithoutFile(f, path) == [x \in DOMAIN f \ {path} |-> f[x]]

\* os.RemoveAll(dir)
RemoveAllFiles(f, dir) == [x \in {y \in DOMAIN f : ~Under(y, dir)} |-> f[x]]

RemoveAllDirs(ds, dir) == {x \in ds : x # dir /\ ~Under(x, dir)}

(***************************************************************************)
(* What is at the final cache path.                                        *)
(***************************************************************************)
\* os.Stat(binaryPath) succeeds
EntryExistsFor(k, f, ds) == BinaryPathOf(k) \in DOMAIN f \/ BinaryPathOf(k) \in ds
CacheEntryExistsIn(f, ds) == EntryExistsFor(DefaultKey, f, ds)

\* a completely extracted artifact is at the final cache path
ArtifactCompleteFor(k, f, ds, d) ==
    IF kind = "terraform"
    THEN TfBinaryPathOf(k) \in DOMAIN f /\ d[f[TfBinaryPathOf(k)]] = "full"
    ELSE /\ PvPlatformPathOf(k) \in ds
         /\ \A i \in 1..Len(archive) :
               LET q == Join(PvPlatformPathOf(k), archive[i])
               IN  q \in DOMAIN f /\ d[f[q]] = "full"
ArtifactCompleteIn(f, ds, d) == ArtifactCompleteFor(DefaultKey, f, ds, d)

RECURSIVE SumTo(_, _)
SumTo(b, n) == IF n = 0 THEN 0 ELSE b[n] + SumTo(b, n - 1)

IdleLocals ==
    [out |-> 0, rd |-> 0, wfd |-> 0, idx |-> 0, hit |-> FALSE, gets |-> 0,
     published |-> FALSE, fault |-> FALSE, alone |-> TRUE, opened |-> FALSE,
     retPath |-> NoPath, retErr |-> FALSE]

\* the cache is empty and no call is in progress
CacheStart ==
    /\ kind \in {"terraform", "provider"}
    /\ archive \in Archives
    /\ files = << >>
    /\ dirs = {Home, <<"tmp">>}
    /\ data = [i \in Inodes |-> "free"]
    /\ pc = [p \in Procs |-> "idle"]
    /\ lc = [p \in Procs |-> IdleLocals]
    /\ log = <<>>
    /\ crashed = FALSE

\* every unit calls for the same key
EnsureStart ==
    /\ CacheStart
    /\ asked = [p \in Procs |-> DefaultKey]
    /\ budget \in {b \in [Procs -> 0..MaxCalls] :
                     /\ \A p \in Procs : \A q \in Procs : p < q => b[p] >= b[q]
                     /\ b[1] > 0
                     /\ SumTo(b, NProcs) <= MaxTotalCalls}

\* two keys are one cache key: terraform has no provider name
SameKey(k1, k2) == k1.version = k2.version /\ (kind = "provider" => k1.name = k2.name)

\* every unit calls once, each for a key of its own
KeysStart ==
    /\ CacheStart
    /\ asked \in {a \in [Procs -> CacheKeys] :
                    /\ a[1] = DefaultKey
                    /\ kind = "terraform" => \A p \in Procs : a[p].name = DefaultKey.name
                    /\ \A p \in Procs : \A q \in Procs : p # q => ~SameKey(a[p], a[q])}
    /\ budget = [p \in Procs |-> 1]


(***************************************************************************)
(* Strings are sequences of atoms: an atom is one of the characters the    *)
(* code looks for (" ", "\"", "/") or a run of other characters.           *)
(***************************************************************************)
RECURSIVE TrimLeft(_, _)
TrimLeft(str, cutset) ==
    IF str # <<>> /\ Head(str) \in cutset THEN TrimLeft(Tail(str), cutset) ELSE str

RECURSIVE TrimRight(_, _)
TrimRight(str, cutset) ==
    IF str # <<>> /\ str[Len(str)] \in cutset
    THEN TrimRight(SubSeq(str, 1, Len(str) - 1), cutset)
    ELSE str

\* strings.Trim
Trim(str, cutset) == TrimRight(TrimLeft(str, cutset), cutset)

RECURSIVE SplitFrom(_, _, _, _)
SplitFrom(str, sep, cur, acc) ==
    IF str = <<>> THEN Append(acc, cur)
    ELSE IF Head(str) = sep THEN SplitFrom(Tail(str), sep, <<>>, Append(acc, cur))
    ELSE SplitFrom(Tail(str), sep, Append(cur, Head(str)), acc)

\* strings.Split
Split(str, sep) == SplitFrom(str, sep, <<>>, <<>>)

RECURSIVE JoinSegs(_)
JoinSegs(segs) ==
    IF Len(segs) = 1 THEN segs[1]
    ELSE segs[1] \o <<"/">> \o JoinSegs(Tail(segs))

(***************************************************************************)
(* The module metadata catalog.                                            *)
(***************************************************************************)
\* the directories metadata.json files lie in
ModDirs == <<"m1", "m2", "m3", "m4", "m5">>
LocalDir(i) == <<"repo", ModDirs[i]>>

Words == {<<"a">>, <<"b">>}
Ovotech == <<"ovotech">>

\* source strings: segments joined by "/", wrapped in spaces and quotes as the
\* tokens of an HCL string expression are
SegSeqs == UNION {[1..n -> Words \cup {<<>>}] : n \in 1..MaxSegs}
LeftPads == {<<>>, <<" ", "\"">>}
RightPads == {<<>>, <<"\"">>}
Sources ==
    {[text |-> l \o JoinSegs(sg) \o r, segs |-> sg] :
        l \in LeftPads, r \in RightPads, sg \in SegSeqs}

Keys == {<<<<"a">>, <<"a">>, <<"a">>>>, <<<<"a">>, <<"b">>, <<"a">>>>, <<<<"b">>, <<"a">>, <<"b">>>>}

ModuleMetadata(key, dir) ==
    [Organisation |-> key[1], Name |-> key[2], Provider |-> key[3], LocalPath |-> dir]

\* the entry lists a rebuild can leave: each entry from its own directory
Catalogs ==
    UNION {{[i \in 1..n |-> ModuleMetadata(ks[i], LocalDir(i))] : ks \in [1..n -> Keys]} :
              n \in 0..MaxMeta}

\* a metadata.json file under a root
MetadataFile(status, org, name, provider, dir) ==
    [status |-> status, org |-> org, name |-> name, provider |-> provider, dir |-> dir]

Roots == {"repo", "other"}

Repos ==
    { [r \in Roots |->
         IF r = "repo"
         THEN << MetadataFile("ok", <<"a">>, <<"b">>, <<"a">>, LocalDir(1)),
                 MetadataFile("ok", <<"a">>, <<"b">>, <<"a">>, LocalDir(2)) >>
         ELSE << MetadataFile("ok", <<>>, <<"b">>, <<"a">>, LocalDir(3)) >>],
      [r \in Roots |->
         IF r = "repo"
         THEN << MetadataFile("ok", <<>>, <<"b">>, <<"a">>, LocalDir(1)),
                 MetadataFile("malformed", <<>>, <<>>, <<>>, LocalDir(2)) >>
         ELSE << MetadataFile("unreadable", <<>>, <<>>, <<>>, LocalDir(3)) >>],
      [r \in Roots |->
         IF r = "repo"
         THEN << MetadataFile("ok", <<"a">>, <<"b">>, <<"a">>, LocalDir(1)) >>
         ELSE << MetadataFile("ok", <<>>, <<"b">>, <<"a">>, LocalDir(3)),
                 MetadataFile("malformed", <<>>, <<>>, <<>>, LocalDir(4)) >>] }

IdleCall ==
    [op |-> "none", done |-> FALSE, src |-> [text |-> <<>>, segs |-> <<>>], parts |-> <<>>,
     ridx |-> 0, matches |-> <<>>, midx |-> 0, err |-> FALSE, path |-> NoPath,
     ok |-> FALSE, tookLock |-> FALSE, meta0 |-> <<>>]

\* the artifact cache at rest
EnsureIdle ==
    /\ kind = "terraform"
    /\ asked = [p \in Procs |-> DefaultKey]
    /\ archive = <<>>
    /\ files = << >>
    /\ dirs = {Home, <<"tmp">>}
    /\ data = [i \in Inodes |-> "free"]
    /\ pc = [p \in Procs |-> "idle"]
    /\ lc = [p \in Procs |-> IdleLocals]
    /\ budget = [p \in Procs |-> 0]
    /\ log = <<>>
    /\ crashed = FALSE

\* the catalog at rest
CatalogIdle ==
    /\ Meta = <<>>
    /\ mx = [writer |-> 0, readers |-> {}]
    /\ init = FALSE
    /\ root = "repo"
    /\ repo = [r \in {"repo"} |-> <<>>]
    /\ pool = {}
    /\ cpc = [p \in Procs |-> "idle"]
    /\ cl = [p \in Procs |-> IdleCall]
    /\ ops = [p \in Procs |-> 0]
    /\ rebuilds = 0
    /\ setroots = 0
    /\ builtSince = 0
    /\ failed = FALSE

(***************************************************************************)
(* The module localizer's disk.  A directory is the sequence of its        *)
(* entries in directory order; an entry is a .tf file, another file, a     *)
(* hidden file or a subdirectory.  A .tf file is the sequence of its       *)
(* blocks, or cannot be read, or cannot be parsed.                         *)
(***************************************************************************)
\* cleanName(t.Name()) of each unit, and the suffixes of its temporary folders
UnitNames == <<"TestA", "TestB", "TestC", "TestD">>
CopyNames == <<"001", "002", "003", "004", "005">>

\* the module under test, each unit's working copy of it, and its temporary folders
SrcDir == <<"repo", "module">>
DstDir(u) == <<"tmp", UnitNames[u], "dst">>
\* a bug TempDir could have: the folder's name does not tell the units apart
TempDir_Shared(u, k) == <<"tmp", "shared", CopyNames[k]>>

TempDir(u, k) == <<"tmp", UnitNames[u], CopyNames[k]>>

\* the tokens of an HCL string expression naming a registry module or a relative path
MkSource(segs) == [text |-> <<" ", "\"">> \o JoinSegs(segs) \o <<"\"">>, segs |-> segs]
NoSource == [text |-> <<>>, segs |-> <<>>]

\* cty.StringVal(target): the absolute path of a folder as a quoted string
PathSegs(dir) == <<<<>>>> \o [i \in 1..Len(dir) |-> <<dir[i]>>]
LocalSource(dir) == [text |-> <<"\"">> \o JoinSegs(PathSegs(dir)) \o <<"\"">>,
                     segs |-> PathSegs(dir)]

SrcAB == MkSource(<<<<"h">>, <<"a">>, <<"b">>, <<"a">>>>)
SrcAA == MkSource(<<<<"h">>, <<"a">>, <<"a">>, <<"a">>>>)
SrcUnknown == MkSource(<<<<"h">>, <<"b">>, <<"b">>, <<"b">>>>)
SrcShort == MkSource(<<<<"a">>, <<"b">>, <<"a">>>>)
SrcRelative == MkSource(<<<<".">>, <<"b">>>>)

Module(labels, source, version) ==
    [type |-> "module", labels |-> labels, hasSource |-> TRUE, source |-> source,
     version |-> version]
ModuleWithoutSource ==
    [type |-> "module", labels |-> 1, hasSource |-> FALSE, source |-> NoSource,
     version |-> FALSE]
Resource ==
    [type |-> "resource", labels |-> 2, hasSource |-> FALSE, source |-> NoSource,
     version |-> FALSE]

TfFile(blocks) == [kind |-> "tf", status |-> "ok", blocks |-> blocks]
BadTfFile(status) == [kind |-> "tf", status |-> status, blocks |-> <<>>]
OtherFile == [kind |-> "other", status |-> "ok", blocks |-> <<>>]
HiddenFile == [kind |-> "hidden", status |-> "ok", blocks |-> <<>>]
SubDir == [kind |-> "dir", status |-> "ok", blocks |-> <<>>]

\* the metadata.json files of the two catalog modules
LocalRepo ==
    [r \in Roots |->
        IF r = "repo"
        THEN << MetadataFile("ok", <<"a">>, <<"b">>, <<"a">>, LocalDir(1)),
                MetadataFile("ok", <<>>, <<"a">>, <<"a">>, LocalDir(2)) >>
        ELSE << >>]

Leaf == <<TfFile(<<Resource>>)>>

\* the repositories the localizer runs on: the module under test and the two
\* catalog modules (organisation/name/provider a/b/a and ovotech/a/a)
Worlds ==
    { \* no module source resolves
      [src |-> <<HiddenFile,
                 TfFile(<<Module(1, SrcRelative, FALSE), Module(1, SrcShort, TRUE), Resource,
                          Module(1, SrcUnknown, TRUE), Module(2, SrcAB, TRUE)>>),
                 OtherFile, SubDir>>,
       m1 |-> <<TfFile(<<Module(1, SrcAA, TRUE)>>)>>, m2 |-> Leaf],
      \* no module source resolves, and a file cannot be read
      [src |-> <<TfFile(<<Module(1, SrcRelative, FALSE)>>), BadTfFile("unreadable")>>,
       m1 |-> Leaf, m2 |-> Leaf],
      \* a chain: the module under test uses a/b/a, which uses ovotech/a/a
      [src |-> <<TfFile(<<Module(1, SrcAB, TRUE)>>), TfFile(<<Module(1, SrcRelative, FALSE)>>)>>,
       m1 |-> <<TfFile(<<Resource, Module(1, MkSource(<<<<"h">>, Ovotech, <<"a">>, <<"a">>>>), TRUE)>>)>>,
       m2 |-> Leaf],
      \* two blocks use the same catalog module
      [src |-> <<TfFile(<<Module(1, SrcAB, TRUE), Module(1, SrcAB, FALSE)>>)>>,
       m1 |-> Leaf, m2 |-> Leaf],
      \* a file that does not parse comes before one that needs a rewrite
      [src |-> <<TfFile(<<Resource>>), BadTfFile("unparsable"), TfFile(<<Module(1, SrcAB, TRUE)>>)>>,
       m1 |-> Leaf, m2 |-> Leaf],
      \* a module block with no source attribute
      [src |-> <<TfFile(<<ModuleWithoutSource>>)>>, m1 |-> Leaf, m2 |-> Leaf],
      \* the two catalog modules use each other
      [src |-> <<TfFile(<<Module(1, SrcAB, TRUE)>>)>>,
       m1 |-> <<TfFile(<<Module(1, MkSource(<<<<"h">>, Ovotech, <<"a">>, <<"a">>>>), TRUE)>>)>>,
       m2 |-> <<TfFile(<<Module(1, SrcAB, TRUE)>>)>>],
      \* a catalog module uses itself
      [src |-> <<TfFile(<<Resource, Module(1, MkSource(<<<<"h">>, Ovotech, <<"a">>, <<"a">>>>), FALSE)>>)>>,
       m1 |-> Leaf,
       m2 |-> <<TfFile(<<Module(1, MkSource(<<<<"h">>, Ovotech, <<"a">>, <<"a">>>>), TRUE)>>),
                OtherFile>>] }

NewFrame(dir) ==
    [dir |-> dir, listing |-> <<>>, fi |-> 0, f |-> <<>>, bi |-> 0, hasChanges |-> FALSE,
     target |-> NoPath]

\* the localizer at rest
LocalIdle ==
    /\ disk = << >>
    /\ lpc = [u \in Procs |-> "idle"]
    /\ stack = [u \in Procs |-> <<>>]
    /\ ncopies = [u \in Procs |-> 0]
    /\ nwrites = [u \in Procs |-> 0]
    /\ dst0 = [u \in Procs |-> <<>>]
    /\ active = {}
    /\ events = [u \in Procs |-> <<>>]

(***************************************************************************)
(* VersionSet.  A version string is the sequence of its characters, so     *)
(* that sorting, searching, parsing and formatting work on what the code   *)
(* works on.                                                               *)
(***************************************************************************)
Digits == <<"0", "1", "2", "3", "4", "5", "6", "7", "8", "9">>
IsDigit(c) == \E i \in 1..10 : Digits[i] = c
DigitValue(c) == (CHOOSE i \in 1..10 : Digits[i] = c) - 1

\* the byte of a character, which Go's string comparison goes by
CharCode(c) ==
    CASE c = "+" -> 43 [] c = "-" -> 45 [] c = "." -> 46
      [] IsDigit(c) -> 48 + DigitValue(c)
      [] c = "v" -> 118 [] c = "x" -> 120

\* a < b for Go strings
RECURSIVE StrLess(_, _)
StrLess(a, b) ==
    IF b = <<>> THEN FALSE
    ELSE IF a = <<>> THEN TRUE
    ELSE IF Head(a) = Head(b) THEN StrLess(Tail(a), Tail(b))
    ELSE CharCode(Head(a)) < CharCode(Head(b))

\* slices.Sort / sort.Strings: the list in ascending order
RECURSIVE InsertSorted(_, _)
InsertSorted(x, sorted) ==
    IF sorted = <<>> THEN <<x>>
    ELSE IF StrLess(x, Head(sorted)) THEN <<x>> \o sorted
    ELSE <<Head(sorted)>> \o InsertSorted(x, Tail(sorted))

RECURSIVE SortStrings(_)
SortStrings(list) ==
    IF list = <<>> THEN <<>> ELSE InsertSorted(Head(list), SortStrings(Tail(list)))

\* slices.BinarySearch: the halving loop over indexes i..j-1 (from 0), as it runs on
\* whatever the slice holds; the result is the position and whether the target is there
RECURSIVE SearchFrom(_, _, _, _)
SearchFrom(list, target, i, j) ==
    IF i >= j THEN i
    ELSE LET h == (i + j) \div 2
         IN  IF StrLess(list[h + 1], target)
             THEN SearchFrom(list, target, h + 1, j)
             ELSE SearchFrom(list, target, i, h)

BinarySearch(list, target) ==
    LET n == SearchFrom(list, target, 0, Len(list))
    IN  [n |-> n, found |-> n < Len(list) /\ list[n + 1] = target]

\* slices.Delete(s, n, n+1): what it returns, and what the caller's slice of the old
\* length holds afterwards: the elements moved down and, in the last place, the old
\* element or the zero string
Deleted(list, n) == SubSeq(list, 1, n) \o SubSeq(list, n + 2, Len(list))
AfterDelete(list, n, clears) ==
    Deleted(list, n) \o <<IF clears THEN <<>> ELSE list[Len(list)]>>

\* the loop of filterBlockedTerraformVersion over the blocklist: available is the
\* caller's slice, result is filteredAvailableVersions
RECURSIVE FilterLoop(_, _, _, _)
FilterLoop(available, result, blocked, clears) ==
    IF blocked = <<>> THEN result
    ELSE LET r == BinarySearch(available, Head(blocked))
         IN  IF r.found
             THEN FilterLoop(AfterDelete(available, r.n, clears), Deleted(available, r.n),
                             Tail(blocked), clears)
             ELSE FilterLoop(available, result, Tail(blocked), clears)

\* filterBlockedTerraformVersion, the blocklist being blockedTerraformVersions
filterBlockedTerraformVersion(available, blocked, clears) ==
    FilterLoop(SortStrings(available), <<>>, blocked, clears)

\* strings.TrimPrefix(v, "v")
TrimPrefix(str, c) == IF str # <<>> /\ Head(str) = c THEN Tail(str) ELSE str

\* the number a run of digits reads as
RECURSIVE DigitsValue(_)
DigitsValue(ds) ==
    IF ds = <<>> THEN 0 ELSE 10 * DigitsValue(SubSeq(ds, 1, Len(ds) - 1)) + DigitValue(ds[Len(ds)])

AllDigits(ds) == ds # <<>> /\ \A i \in 1..Len(ds) : IsDigit(ds[i])

\* strconv.Atoi: an optional sign, then digits
Atoi(str) ==
    LET signed == str # <<>> /\ Head(str) \in {"+", "-"}
        ds == IF signed THEN Tail(str) ELSE str
    IN  IF ~AllDigits(ds) THEN [ok |-> FALSE, val |-> 0]
        ELSE [ok |-> TRUE,
              val |-> IF signed /\ Head(str) = "-" THEN 0 - DigitsValue(ds) ELSE DigitsValue(ds)]

\* %d
RECURSIVE FormatNat(_)
FormatNat(n) ==
    IF n < 10 THEN <<Digits[n + 1]>> ELSE FormatNat(n \div 10) \o <<Digits[(n % 10) + 1]>>
FormatInt(n) == IF n < 0 THEN <<"-">> \o FormatNat(0 - n) ELSE FormatNat(n)

\* parseVersion: major and minor are read, the patch is not
parseVersion(v) ==
    LET parts == Split(TrimPrefix(v, "v"), ".")
    IN  IF Len(parts) < 3 THEN [ok |-> FALSE, Major |-> 0, Minor |-> 0, Patch |-> 0]
        ELSE IF ~Atoi(parts[1]).ok \/ ~Atoi(parts[2]).ok
        THEN [ok |-> FALSE, Major |-> 0, Minor |-> 0, Patch |-> 0]
        ELSE [ok |-> TRUE, Major |-> Atoi(parts[1]).val, Minor |-> Atoi(parts[2]).val,
              Patch |-> 0]

\* a bug MinorKey could have: the patch is left out
MinorKey_Short(parsed) == FormatInt(parsed.Major) \o <<".">> \o FormatInt(parsed.Minor)

\* fmt.Sprintf("%d.%d.%d", parsed.Major, parsed.Minor, parsed.Patch)
MinorKey(parsed) ==
    FormatInt(parsed.Major) \o <<".">> \o FormatInt(parsed.Minor) \o <<".">>
        \o FormatInt(parsed.Patch)

\* a bug Unique could have: nothing is dropped
Unique_Keeps(list) == list

\* unique.Strings on a sorted list: equal neighbours become one
RECURSIVE Unique(_)
Unique(list) ==
    IF Len(list) < 2 THEN list
    ELSE IF list[1] = list[2] THEN Unique(Tail(list))
    ELSE <<Head(list)>> \o Unique(Tail(list))

\* the loop of FilterMinorVersionsE over the versions
RECURSIVE MinorKeys(_)
MinorKeys(versions) ==
    IF versions = <<>> THEN [ok |-> TRUE, keys |-> <<>>]
    ELSE LET parsed == parseVersion(Head(versions))
             rest == MinorKeys(Tail(versions))
         IN  IF ~parsed.ok \/ ~rest.ok THEN [ok |-> FALSE, keys |-> <<>>]
             ELSE [ok |-> TRUE, keys |-> <<MinorKey(parsed)>> \o rest.keys]

FilterMinorVersionsE(versions) ==
    LET r == MinorKeys(versions)
    IN  IF ~r.ok THEN [vers |-> <<>>, err |-> TRUE]
        ELSE [vers |-> Unique(SortStrings(r.keys)), err |-> FALSE]

\* version.NewVersion: an optional "v", then numbers separated by "."; fewer than three
\* numbers are filled up with 0
RECURSIVE SegmentValues(_)
SegmentValues(parts) ==
    IF parts = <<>> THEN <<>> ELSE <<DigitsValue(Head(parts))>> \o SegmentValues(Tail(parts))

NewVersion(str) ==
    LET parts == Split(TrimPrefix(str, "v"), ".")
        ok == \A i \in 1..Len(parts) : AllDigits(parts[i])
        vals == SegmentValues(parts)
    IN  IF ~ok THEN [ok |-> FALSE, segments |-> <<>>]
        ELSE [ok |-> TRUE,
              segments |-> vals \o [i \in 1..(IF Len(vals) < 3 THEN 3 - Len(vals) ELSE 0) |-> 0]]

\* (*Version).String(): the numbers joined by "."
RECURSIVE VersionString(_)
VersionString(segments) ==
    IF Len(segments) = 1 THEN FormatNat(segments[1])
    ELSE FormatNat(segments[1]) \o <<".">> \o VersionString(Tail(segments))

\* (*Version).Compare on the numbers: -1, 0 or 1
RECURSIVE Compare(_, _)
Compare(a, b) ==
    IF a = <<>> /\ b = <<>> THEN 0
    ELSE LET x == IF a = <<>> THEN 0 ELSE Head(a)
             y == IF b = <<>> THEN 0 ELSE Head(b)
         IN  IF x < y THEN 0 - 1
             ELSE IF x > y THEN 1
             ELSE Compare(IF a = <<>> THEN a ELSE Tail(a), IF b = <<>> THEN b ELSE Tail(b))

\* Constraints.Check: every clause holds
Check(clauses, segments) ==
    \A i \in 1..Len(clauses) :
        LET c == Compare(segments, NewVersion(clauses[i].ver).segments)
        IN  CASE clauses[i].op = ">=" -> c >= 0
              [] clauses[i].op = "<" -> c < 0
              [] clauses[i].op = "=" -> c = 0

\* the first loop of GetMatchingVersionsE: the parsed versions, or the failure
RECURSIVE ParseAll(_)
ParseAll(versions) ==
    IF versions = <<>> THEN [ok |-> TRUE, vers |-> <<>>]
    ELSE LET v == NewVersion(Head(versions))
             rest == ParseAll(Tail(versions))
         IN  IF ~v.ok \/ ~rest.ok THEN [ok |-> FALSE, vers |-> <<>>]
             ELSE [ok |-> TRUE, vers |-> <<v.segments>> \o rest.vers]

\* the second loop of GetMatchingVersionsE: ver.String() of the versions that pass
RECURSIVE Matching(_, _)
Matching(clauses, vers) ==
    IF vers = <<>> THEN <<>>
    ELSE (IF Check(clauses, Head(vers)) THEN <<VersionString(Head(vers))>> ELSE <<>>)
            \o Matching(clauses, Tail(vers))

\* a bug OnParseError could have: the versions that did parse are still returned
OnParseError_Partial(clauses, versions) ==
    [vers |-> Matching(clauses, ParseAll(SelectSeq(versions, LAMBDA v : NewVersion(v).ok)).vers),
     err |-> TRUE]

\* return nil, err
OnParseError(clauses, versions) == [vers |-> <<>>, err |-> TRUE]

GetMatchingVersionsE(want, versions) ==
    IF ~want.wellFormed THEN [vers |-> <<>>, err |-> TRUE]
    ELSE IF ~ParseAll(versions).ok THEN OnParseError(want.clauses, versions)
    ELSE [vers |-> Matching(want.clauses, ParseAll(versions).vers), err |-> FALSE]

\* the version strings of the runs: canonical ones, one with a "v", one of two numbers,
\* one that is no version
V100 == <<"1", ".", "0", ".", "0">>
V120 == <<"1", ".", "2", ".", "0">>
V195 == <<"1", ".", "9", ".", "5">>
V1100 == <<"1", ".", "1", "0", ".", "0">>
V200 == <<"2", ".", "0", ".", "0">>
Vv123 == <<"v", "1", ".", "2", ".", "3">>
V12 == <<"1", ".", "2">>
Vx10 == <<"x", ".", "1", ".", "0">>
VersionPool == {V100, V120, V195, V1100, V200, Vv123, V12, Vx10}

Lists == UNION {[1..n -> VersionPool] : n \in 0..MaxList}

\* blockedTerraformVersions as the source has it, and other blocklists
BlockedTerraformVersions == <<V1100>>
Blocklists == {<<>>, BlockedTerraformVersions, <<V1100, V200>>, <<V100, V1100>>}

\* a constraint string as version.NewConstraint reads it
Clause(op, ver) == [op |-> op, ver |-> ver]
Constraints ==
    {[wellFormed |-> TRUE, clauses |-> <<Clause(">=", V120), Clause("<", V200)>>],
     [wellFormed |-> TRUE, clauses |-> <<Clause(">=", V100)>>],
     [wellFormed |-> FALSE, clauses |-> <<>>]}

NoResult == [vers |-> <<>>, err |-> FALSE]
NoVersion == [ok |-> FALSE, Major |-> 0, Minor |-> 0, Patch |-> 0]

\* strings handed to parseVersion besides those of the listing: a fourth segment, a patch
\* that is no number, a minor that is no number, a minus sign before the major and
\* before the minor, the empty string
V1200 == <<"1", ".", "2", ".", "0", ".", "0">>
V12x == <<"1", ".", "2", ".", "x">>
V1x0 == <<"1", ".", "x", ".", "0">>
Vm120 == <<"-", "1", ".", "2", ".", "0">>
V1m20 == <<"1", ".", "-", "2", ".", "0">>
ParseInputs == VersionPool \cup {V1200, V12x, V1x0, Vm120, V1m20, <<>>}

\* the version set at rest
VersionIdle ==
    /\ listing = <<>>
    /\ blocklist = BlockedTerraformVersions
    /\ constraint = [wellFormed |-> FALSE, clauses |-> <<>>]
    /\ clearsTail = FALSE
    /\ vop = "none"
    /\ parsedVersion = NoVersion
    /\ vpc = "returned"
    /\ filtered = <<>>
    /\ matched = NoResult
    /\ grouped = NoResult
    /\ regrouped = NoResult
    /\ started = <<>>

(***************************************************************************)
(* The release index.  It holds releases with the time each was created    *)
(* and answers a request with a page of at most PageLimit releases after   *)
(* the request's cursor, in its order.                                     *)
(***************************************************************************)
ReleaseVersions == <<V200, V1100, V195, V120, V100>>
Release(i, ts) == [version |-> ReleaseVersions[i], timestamp_created |-> ts]
Indexes ==
    {[i \in 1..Len(stamps) |-> Release(i, stamps[i])] :
        stamps \in {st \in UNION {[1..n -> 1..MaxStamp] : n \in 0..MaxReleases} :
                       \A i, j \in 1..Len(st) : i < j => st[i] <= st[j]}}

\* the request without "after"
NoCursor == [after |-> FALSE, stamp |-> 0]
Cursor(ts) == [after |-> TRUE, stamp |-> ts]

\* the releases the index has after a cursor
ReleasesAfter(idx, cursor) ==
    SelectSeq(idx, LAMBDA r : ~cursor.after \/ r.timestamp_created > cursor.stamp)

\* the pages the index may answer a request with
Pages(idx, cursor) ==
    LET rest == ReleasesAfter(idx, cursor)
    IN  {SubSeq(rest, 1, k) : k \in 0..(IF Len(rest) < PageLimit THEN Len(rest) ELSE PageLimit)}

ListIdle ==
    /\ relIndex = <<>>
    /\ pageReq = NoCursor
    /\ pageResult = <<>>
    /\ allVersions = <<>>
    /\ requested = <<>>
    /\ received = <<>>
    /\ apc = "none"
    /\ listed = NoResult

(***************************************************************************)
(* Config files.  A parsed file is its sequence of top-level blocks; a     *)
(* module block has a source and maybe a version, a terraform block has    *)
(* nested blocks, of which required_providers maps provider names.         *)
(***************************************************************************)
Absent == "absent"
Block(type, labels, source, version, nested) ==
    [type |-> type, labels |-> labels, source |-> source, version |-> version,
     nested |-> nested]
ModuleBlockOf(label, source, version) == Block("module", <<label>>, source, version, <<>>)
TwoLabelModule == Block("module", <<"a", "x">>, "registry", "1.0", <<>>)
ResourceBlock == Block("resource", <<"t", "n">>, Absent, Absent, <<>>)
Requirement(version, source) == [version |-> version, source |-> source]
NoRequirement == Requirement(Absent, Absent)
Nested(type, aws) == [type |-> type, aws |-> aws]
TerraformBlock(nested) == Block("terraform", <<>>, Absent, Absent, nested)
\* required_providers at the top level: no terraform block around it
StrayRequiredProviders == Block("required_providers", <<>>, Absent, Absent, <<>>)

\* file contents of the runs
Trees ==
    {<<ModuleBlockOf("a", "registry", "1.0"), ModuleBlockOf("b", "registry", Absent)>>,
     <<ModuleBlockOf("a", "../", Absent), ResourceBlock>>,
     <<ModuleBlockOf("a", "./local", "2.0"), TwoLabelModule>>,
     <<TerraformBlock(<<Nested("backend", NoRequirement), Nested("required_providers", NoRequirement)>>)>>,
     <<TerraformBlock(<<Nested("required_providers", Requirement("5.0", "hashicorp/aws"))>>),
       ModuleBlockOf("b", "registry", "1.0")>>,
     <<TerraformBlock(<<>>), StrayRequiredProviders, ResourceBlock>>}

\* a directory entry: its kind, whether its name ends in ".tf", whether it can be read,
\* parsed and written, and what it holds
Entry(k, tf, readable, parses, writable, tree) ==
    [kind |-> k, tf |-> tf, readable |-> readable, parses |-> parses,
     writable |-> writable, tree |-> tree]
SampleTree == <<ModuleBlockOf("a", "registry", "1.0"), ModuleBlockOf("b", "registry", Absent)>>
ProviderTree == <<TerraformBlock(<<Nested("backend", NoRequirement), Nested("required_providers", NoRequirement)>>)>>
Entries ==
    {Entry("file", TRUE, TRUE, TRUE, TRUE, t) : t \in Trees}
    \cup {Entry("file", TRUE, FALSE, TRUE, TRUE, SampleTree),
          Entry("file", TRUE, TRUE, FALSE, TRUE, <<>>),
          Entry("file", TRUE, TRUE, TRUE, FALSE, SampleTree),
          Entry("file", TRUE, TRUE, TRUE, FALSE, ProviderTree),
          Entry("file", FALSE, TRUE, TRUE, TRUE, SampleTree),
          Entry("dir", TRUE, FALSE, FALSE, FALSE, <<>>),
          Entry("dir", FALSE, FALSE, FALSE, FALSE, <<>>),
          Entry("symlink", TRUE, TRUE, TRUE, TRUE, SampleTree)}
Directories == UNION {[1..n -> Entries] : n \in 0..MaxFiles}

\* the calls of the runs
ModuleUpdates ==
    {[fn |-> "module", module |-> m, src |-> src, ver |-> ver] :
        m \in {"a", "*"}, src \in {"..", "./local"}, ver \in {"", "2.0"}}
ProviderUpdates ==
    {[fn |-> "provider", provider |-> "aws", version |-> "5.0",
      providerSource |-> "hashicorp/aws"]}
Updates == ModuleUpdates \cup ProviderUpdates

NoFile == [tree |-> <<>>, hasChanges |-> FALSE]

EditIdle ==
    /\ cfgDir = <<>>
    /\ lockFile = FALSE
    /\ dirWritable = TRUE
    /\ update = [fn |-> "none"]
    /\ upc = "none"
    /\ nextEntry = 1
    /\ trail = <<>>
    /\ updateErr = FALSE
    /\ parsedFile = NoFile

HelpersIdle == VersionIdle /\ ListIdle /\ EditIdle

(***************************************************************************)
(* The steps of an ensure call.  Every system call and every network       *)
(* request is one step; its outcome, where the environment decides it, is  *)
(* chosen with \E.                                                         *)
(***************************************************************************)
At(p, label) == ~crashed /\ pc[p] = label

\* what the log keeps of a call that returned
CallRecord(p, l, path, err, f, ds, d) ==
    [proc |-> p, path |-> path, err |-> err, hit |-> l.hit, gets |-> l.gets,
     published |-> l.published, fault |-> l.fault, alone |-> l.alone,
     opened |-> l.opened,
     entryAfter |-> EntryExistsFor(asked[p], f, ds),
     artifactAfter |-> ArtifactCompleteFor(asked[p], f, ds, d)]

\* the call goes on at newpc
Goto(p, newpc, l, f, ds, d) ==
    /\ pc' = [pc EXCEPT ![p] = newpc]
    /\ lc' = [lc EXCEPT ![p] = l]
    /\ files' = f
    /\ dirs' = ds
    /\ data' = GC(d, f, lc')
    /\ UNCHANGED <<kind, asked, archive, budget, log, crashed, catalogVars, localVars, helperVars>>

\* a return statement with no deferred call registered
Return(p, path, err, l, f, ds, d) ==
    /\ pc' = [pc EXCEPT ![p] = "idle"]
    /\ lc' = [lc EXCEPT ![p] = IdleLocals]
    /\ files' = f
    /\ dirs' = ds
    /\ data' = GC(d, f, lc')
    /\ log' = Append(log, CallRecord(p, l, path, err, f, ds, data'))
    /\ UNCHANGED <<kind, asked, archive, budget, crashed, catalogVars, localVars, helperVars>>

\* a return statement after the three defers are registered: they run first
ReturnDeferred(p, path, err, l, f, ds, d) ==
    Goto(p, "defer_removeall", [l EXCEPT !.retPath = path, !.retErr = err], f, ds, d)

\* a unit calls DownloadTerraformVersionE or DownloadProviderVersionE
EnsureCall(p) ==
    /\ At(p, "idle")
    /\ budget[p] > 0
    /\ budget' = [budget EXCEPT ![p] = @ - 1]
    /\ pc' = [pc EXCEPT ![p] = "stat"]
    /\ lc' = [q \in Procs |->
                IF q = p
                THEN [IdleLocals EXCEPT !.alone = \A r \in Procs \ {p} : pc[r] = "idle"]
                ELSE IF pc[q] = "idle" THEN lc[q] ELSE [lc[q] EXCEPT !.alone = FALSE]]
    /\ UNCHANGED <<kind, asked, archive, files, dirs, data, log, crashed, catalogVars, localVars, helperVars>>

(* DownloadTerraformVersionE *)

TfStat(p) ==
    /\ At(p, "stat") /\ kind = "terraform"
    /\ IF EntryExistsFor(asked[p], files, dirs)
       THEN Return(p, TfBinaryPathOf(asked[p]), FALSE, [lc[p] EXCEPT !.hit = TRUE], files, dirs, data)
       ELSE Goto(p, "mkdir", lc[p], files, dirs, data)

TfMkdir(p) ==
    /\ At(p, "mkdir") /\ kind = "terraform"
    /\ Goto(p, "url", lc[p], files, dirs \cup {TfDownloadDirectory}, data)

TfGetBinaryUrl(p) ==
    /\ At(p, "url") /\ kind = "terraform"
    /\ \E ok \in BOOLEAN :
         IF ok THEN Goto(p, "get", lc[p], files, dirs, data)
         ELSE Return(p, NoPath, TRUE, [lc[p] EXCEPT !.fault = TRUE], files, dirs, data)

TfHttpGet(p) ==
    /\ At(p, "get") /\ kind = "terraform"
    /\ LET l == [lc[p] EXCEPT !.gets = @ + 1]
       IN  \E answer \in {"error", "non200", "ok"} :
             CASE answer = "error" ->
                    Return(p, NoPath, TRUE, [l EXCEPT !.fault = TRUE], files, dirs, data)
               [] answer = "non200" ->
                    \* fmt.Errorf's value is dropped: return "", nil
                    Return(p, NoPath, FALSE, [l EXCEPT !.fault = TRUE], files, dirs, data)
               [] OTHER -> Goto(p, "create", l, files, dirs, data)

TfCreate(p) ==
    /\ At(p, "create") /\ kind = "terraform"
    /\ \E ok \in BOOLEAN :
         IF ok
         THEN LET ino == OpenTrunc(TfZipPathOf(asked[p]))
              IN  Goto(p, "copy", [lc[p] EXCEPT !.out = ino],
                       WithFile(files, TfZipPathOf(asked[p]), ino), dirs,
                       [data EXCEPT ![ino] = "empty"])
         \* the error is dropped and out is nil
         ELSE Goto(p, "copy", [lc[p] EXCEPT !.out = 0, !.fault = TRUE], files, dirs, data)

TfCopy(p) ==
    /\ At(p, "copy") /\ kind = "terraform"
    /\ IF lc[p].out = 0
       THEN Goto(p, "open", lc[p], files, dirs, data)
       ELSE \E ok \in BOOLEAN :
              IF ok
              THEN Goto(p, "open", lc[p], files, dirs, [data EXCEPT ![lc[p].out] = "full"])
              \* the error is dropped
              ELSE Goto(p, "open", [lc[p] EXCEPT !.fault = TRUE], files, dirs, data)

TfOpenReader(p) ==
    /\ At(p, "open") /\ kind = "terraform"
    /\ IF lc[p].out = 0
       THEN \* out.Name() on a nil *os.File: nil pointer dereference
            /\ crashed' = TRUE
            /\ UNCHANGED <<kind, asked, archive, files, dirs, data, pc, lc, budget, log, catalogVars, localVars, helperVars>>
       ELSE IF TfZipPathOf(asked[p]) \in DOMAIN files /\ data[files[TfZipPathOf(asked[p])]] = "full"
       THEN Goto(p, "mkstaging",
                 [lc[p] EXCEPT !.out = 0, !.rd = files[TfZipPathOf(asked[p])], !.opened = TRUE],
                 files, dirs, data)
       ELSE Return(p, NoPath, TRUE, lc[p], files, dirs, data)

TfMkdirStaging(p) ==
    /\ At(p, "mkstaging") /\ kind = "terraform"
    /\ Goto(p, "extract", [lc[p] EXCEPT !.idx = 1], files,
            dirs \cup Ancestors(TfZipExtractPathOf(asked[p])), data)

TfRename(p) ==
    /\ At(p, "rename") /\ kind = "terraform"
    /\ LET src == TfZipExtractPathOf(asked[p]) \o <<"terraform">>
       IN  IF src \in DOMAIN files /\ TfBinaryPathOf(asked[p]) \notin dirs
           THEN ReturnDeferred(p, TfBinaryPathOf(asked[p]), FALSE, [lc[p] EXCEPT !.published = TRUE],
                               WithFile(WithoutFile(files, src), TfBinaryPathOf(asked[p]), files[src]),
                               dirs, data)
           ELSE ReturnDeferred(p, NoPath, TRUE, lc[p], files, dirs, data)

(* DownloadProviderVersionE *)

PvStat(p) ==
    /\ At(p, "stat") /\ kind = "provider"
    /\ IF EntryExistsFor(asked[p], files, dirs)
       THEN Return(p, PvBinaryPathOf(asked[p]), FALSE, [lc[p] EXCEPT !.hit = TRUE], files, dirs, data)
       ELSE Goto(p, "mkdir", lc[p], files, dirs, data)

PvMkdirAll(p) ==
    /\ At(p, "mkdir") /\ kind = "provider"
    /\ Goto(p, "url", lc[p], files, dirs \cup Ancestors(PvBinaryPathOf(asked[p])), data)

PvGetBinaryUrl(p) ==
    /\ At(p, "url") /\ kind = "provider"
    /\ \E ok \in BOOLEAN :
         IF ok THEN Goto(p, "get", lc[p], files, dirs, data)
         ELSE Return(p, NoPath, TRUE, [lc[p] EXCEPT !.fault = TRUE], files, dirs, data)

PvHttpGet(p) ==
    /\ At(p, "get") /\ kind = "provider"
    /\ LET l == [lc[p] EXCEPT !.gets = @ + 1]
       IN  \E answer \in {"error", "non200", "ok"} :
             CASE answer = "error" ->
                    Return(p, NoPath, TRUE, [l EXCEPT !.fault = TRUE], files, dirs, data)
               [] answer = "non200" ->
                    Return(p, NoPath, FALSE, [l EXCEPT !.fault = TRUE], files, dirs, data)
               [] OTHER -> Goto(p, "create", l, files, dirs, data)

PvCreate(p) ==
    /\ At(p, "create") /\ kind = "provider"
    /\ \E ok \in BOOLEAN :
         IF ok
         THEN LET ino == OpenTrunc(PvZipPathOf(asked[p]))
              IN  Goto(p, "copy", [lc[p] EXCEPT !.out = ino],
                       WithFile(files, PvZipPathOf(asked[p]), ino), dirs,
                       [data EXCEPT ![ino] = "empty"])
         ELSE Return(p, NoPath, TRUE, [lc[p] EXCEPT !.fault = TRUE], files, dirs, data)

PvCopy(p) ==
    /\ At(p, "copy") /\ kind = "provider"
    /\ \E ok \in BOOLEAN :
         IF ok
         THEN Goto(p, "open", lc[p], files, dirs, [data EXCEPT ![lc[p].out] = "full"])
         ELSE Return(p, NoPath, TRUE, [lc[p] EXCEPT !.fault = TRUE], files, dirs, data)

PvOpenReader(p) ==
    /\ At(p, "open") /\ kind = "provider"
    /\ IF PvZipPathOf(asked[p]) \in DOMAIN files /\ data[files[PvZipPathOf(asked[p])]] = "full"
       THEN Goto(p, "mkstaging",
                 [lc[p] EXCEPT !.out = 0, !.rd = files[PvZipPathOf(asked[p])], !.opened = TRUE],
                 files, dirs, data)
       ELSE Return(p, NoPath, TRUE, lc[p], files, dirs, data)

PvMkdirStaging(p) ==
    /\ At(p, "mkstaging") /\ kind = "provider"
    /\ Goto(p, "extract", [lc[p] EXCEPT !.idx = 1], files,
            dirs \cup Ancestors(PvZipExtractPathOf(asked[p])), data)

\* os.Rename of the staging directory onto <binaryPath>/<os>_<arch>
PvRename(p) ==
    /\ At(p, "rename") /\ kind = "provider"
    /\ IF /\ PvZipExtractPathOf(asked[p]) \in dirs
          /\ PvBinaryPathOf(asked[p]) \in dirs
          /\ PvPlatformPathOf(asked[p]) \notin DOMAIN files
          /\ ~\E x \in DOMAIN files \cup dirs : Under(x, PvPlatformPathOf(asked[p]))
       THEN LET moved(x) == IF x = PvZipExtractPathOf(asked[p]) \/ Under(x, PvZipExtractPathOf(asked[p]))
                            THEN Rebase(x, PvZipExtractPathOf(asked[p]), PvPlatformPathOf(asked[p])) ELSE x
                f2 == [y \in {moved(x) : x \in DOMAIN files} |->
                         files[CHOOSE x \in DOMAIN files : moved(x) = y]]
            IN  \* the miss returns the cache's root directory, not binaryPath
                ReturnDeferred(p, GetBinaryPath, FALSE, [lc[p] EXCEPT !.published = TRUE],
                               f2, {moved(x) : x \in dirs}, data)
       ELSE ReturnDeferred(p, NoPath, TRUE, lc[p], files, dirs, data)

(* extractAndWriteFile, called for each entry of the archive *)

\* f.Open, the ZipSlip check, os.MkdirAll of the parent and os.OpenFile
ExtractOpen(p) ==
    /\ At(p, "extract")
    /\ LET name == archive[lc[p].idx]
           path == Join(ZipExtractPathOf(asked[p]), name)
       IN  IF data[lc[p].rd] # "full"
           THEN ReturnDeferred(p, NoPath, TRUE, lc[p], files, dirs, data)
           ELSE IF ~HasDirPrefix(path, ZipExtractPathOf(asked[p]))
           THEN ReturnDeferred(p, NoPath, TRUE, lc[p], files, dirs, data)
           ELSE LET ino == OpenTrunc(path)
                IN  Goto(p, "write", [lc[p] EXCEPT !.wfd = ino],
                         WithFile(files, path, ino),
                         dirs \cup Ancestors(Dir(path)),
                         [data EXCEPT ![ino] = "empty"])

\* io.Copy(f, rc) and the deferred Close of both
ExtractCopy(p) ==
    /\ At(p, "write")
    /\ IF data[lc[p].rd] # "full"
       THEN ReturnDeferred(p, NoPath, TRUE, [lc[p] EXCEPT !.wfd = 0], files, dirs, data)
       ELSE Goto(p, IF lc[p].idx < Len(archive) THEN "extract" ELSE "rename",
                 [lc[p] EXCEPT !.wfd = 0, !.idx = @ + 1],
                 files, dirs, [data EXCEPT ![lc[p].wfd] = "full"])

(* the deferred calls, last registered first *)

\* defer os.RemoveAll(zipExtractPath)
DeferRemoveAll(p) ==
    /\ At(p, "defer_removeall")
    /\ Goto(p, "defer_remove", lc[p], RemoveAllFiles(files, ZipExtractPathOf(asked[p])),
            RemoveAllDirs(dirs, ZipExtractPathOf(asked[p])), data)

\* defer os.Remove(out.Name())
DeferRemove(p) ==
    /\ At(p, "defer_remove")
    /\ Goto(p, "defer_close", lc[p], WithoutFile(files, ZipPathOf(asked[p])), dirs, data)

\* the deferred r.Close(); then the call has returned
DeferClose(p) ==
    /\ At(p, "defer_close")
    /\ Return(p, lc[p].retPath, lc[p].retErr, [lc[p] EXCEPT !.rd = 0], files, dirs, data)

EnsureNext ==
    \E p \in Procs :
        \/ EnsureCall(p)
        \/ TfStat(p) \/ TfMkdir(p) \/ TfGetBinaryUrl(p) \/ TfHttpGet(p) \/ TfCreate(p)
        \/ TfCopy(p) \/ TfOpenReader(p) \/ TfMkdirStaging(p) \/ TfRename(p)
        \/ PvStat(p) \/ PvMkdirAll(p) \/ PvGetBinaryUrl(p) \/ PvHttpGet(p) \/ PvCreate(p)
        \/ PvCopy(p) \/ PvOpenReader(p) \/ PvMkdirStaging(p) \/ PvRename(p)
        \/ ExtractOpen(p) \/ ExtractCopy(p)
        \/ DeferRemoveAll(p) \/ DeferRemove(p) \/ DeferClose(p)

\* the artifact cache in use, the catalog at rest
EnsureInit == EnsureStart /\ CatalogIdle /\ LocalIdle /\ HelpersIdle

SpecEnsure == EnsureInit /\ [][EnsureNext]_vars

\* the artifact cache in use for several keys at once
KeysInit == KeysStart /\ CatalogIdle /\ LocalIdle /\ HelpersIdle

SpecKeys == KeysInit /\ [][EnsureNext]_vars

(***************************************************************************)
(* The artifact cache: claims C1 to C6.                                    *)
(***************************************************************************)
\* calls i and i+1 of the log ran one after the other, with no other call in progress
InSequence(i) == log[i].alone /\ log[i + 1].alone

\* the archive holds an entry that resolves outside the staging directory
ArchiveEscapes == \E i \in 1..Len(archive) : Escapes(ZipExtractPath, archive[i])

\* the archive extracts and (for terraform) holds the binary the rename looks for
ArchiveUsable ==
    /\ ~ArchiveEscapes
    /\ kind = "terraform" => \E i \in 1..Len(archive) : archive[i] = <<"terraform">>

\* C1: when ensure is called twice in sequence for the same key and the first call
\* (a miss) returns without error, the first call made the one download request and
\* the second call is a cache hit that makes no network request.
C1_OneDownloadForTwoCalls ==
    \A i \in 1..(Len(log) - 1) :
        (InSequence(i) /\ ~log[i].hit /\ ~log[i].err)
            => (log[i].gets = 1 /\ log[i + 1].hit /\ log[i + 1].gets = 0)

\* C2: after an ensure call that missed and did not complete download and extraction
\* (it never renamed the staging result to the final path), nothing exists at the
\* final cache path, and the next call for the key is not a cache hit.
C2_FailedCallLeavesNoEntry ==
    \A i \in 1..Len(log) :
        (log[i].alone /\ ~log[i].hit /\ ~log[i].published)
            => /\ ~log[i].entryAfter
               /\ (i < Len(log) /\ log[i + 1].alone) => ~log[i + 1].hit

\* C3: in every reachable state, whenever an entry exists at the final cache path it
\* is a completely extracted artifact.
C3_EntryIsCompleteArtifact ==
    CacheEntryExistsIn(files, dirs) => ArtifactCompleteIn(files, dirs, data)

\* the places an ensure call may create files or directories in
Allowed(x) ==
    \/ x \in {Home, <<"tmp">>, ZipPath, BinaryPath, ZipExtractPath}
    \/ x \in Ancestors(BinaryPath) \cup Ancestors(ZipExtractPath)
    \/ Under(x, ZipExtractPath)
    \/ Under(x, BinaryPath)

\* C4: extraction rejects every entry that resolves outside the staging directory,
\* nothing is ever created outside the staging directory (and the cache's own paths),
\* and an ensure call whose archive holds such an entry fails and publishes no cache
\* entry.
C4_TraversalRejected ==
    /\ \A x \in DOMAIN files \cup dirs : Allowed(x)
    /\ \A i \in 1..Len(log) :
         (log[i].opened /\ log[i].alone /\ ArchiveEscapes)
            => (log[i].err /\ ~log[i].published /\ ~log[i].entryAfter)

\* C5: every ensure call returns an error, or returns without error the cache path of
\* the key with an artifact present at it; it never terminates the process.
C5_ErrorOrCachePath ==
    /\ ~crashed
    /\ \A i \in 1..Len(log) :
         log[i].err \/ (log[i].path = BinaryPath /\ log[i].artifactAfter)

\* C6: when two units call ensure concurrently for an uncached key and no request or
\* file operation fails on its own, both calls return successfully and the final cache
\* path then holds one complete artifact.
C6_ConcurrentMissesBothSucceed ==
    (/\ Len(log) = 2
     /\ \A p \in Procs : pc[p] = "idle"
     /\ \A i \in 1..2 : ~log[i].alone /\ ~log[i].hit /\ ~log[i].fault
     /\ log[1].proc # log[2].proc
     /\ ArchiveUsable)
        => /\ ~log[1].err /\ ~log[2].err
           /\ ArtifactCompleteIn(files, dirs, data)

(***************************************************************************)
(* ModuleMetadataCatalog: Resolve, Init, SetRoot, GetModuleMetadataCatalog *)
(***************************************************************************)
\* the catalog call of p goes on at newpc
CatGoto(p, newpc, l) ==
    /\ ~crashed
    /\ cpc' = [cpc EXCEPT ![p] = newpc]
    /\ cl' = [cl EXCEPT ![p] = l]

\* the catalog call of p has returned
CatReturn(p, l) == CatGoto(p, "idle", [l EXCEPT !.done = TRUE])

\* a unit calls mmc.Resolve(src)
ResolveCall(p) ==
    /\ cpc[p] = "idle" /\ ops[p] > 0
    /\ \E src \in pool :
         CatGoto(p, "r_split", [IdleCall EXCEPT !.op = "Resolve", !.src = src, !.meta0 = Meta])
    /\ ops' = [ops EXCEPT ![p] = @ - 1]
    /\ UNCHANGED <<Meta, mx, init, root, repo, pool, rebuilds, setroots, builtSince, failed, ensureVars, localVars, helperVars>>

\* a bug WellShaped could have: any string of at least 4 segments passes
WellShaped_AtLeastFour(parts) == Len(parts) >= 4

\* len(parts) != 4 does not hold
WellShaped(parts) == Len(parts) = 4

\* strings.Split(strings.Trim(src, " \""), "/") and the length check
ResolveSplit(p) ==
    /\ cpc[p] = "r_split"
    /\ LET parts == Split(Trim(cl[p].src.text, {" ", "\""}), "/")
       IN  IF ~WellShaped(parts)
           THEN CatReturn(p, [cl[p] EXCEPT !.parts = parts, !.path = NoPath, !.ok = FALSE])
           ELSE CatGoto(p, "r_rlock", [cl[p] EXCEPT !.parts = parts])
    /\ UNCHANGED <<Meta, mx, init, root, repo, pool, ops, rebuilds, setroots, builtSince, failed, ensureVars, localVars, helperVars>>

\* mmc.mx.RLock()
ResolveRLock(p) ==
    /\ cpc[p] = "r_rlock"
    /\ mx.writer = 0
    /\ mx' = [mx EXCEPT !.readers = @ \cup {p}]
    /\ CatGoto(p, "r_scan", [cl[p] EXCEPT !.ridx = 1, !.tookLock = TRUE])
    /\ UNCHANGED <<Meta, init, root, repo, pool, ops, rebuilds, setroots, builtSince, failed, ensureVars, localVars, helperVars>>

\* a bug Matches could have: the host segment taken for the organisation
Matches_FromHost(meta, parts) ==
    /\ meta.Organisation = parts[1]
    /\ meta.Name = parts[2]
    /\ meta.Provider = parts[3]

\* the test of one entry against parts[1], parts[2], parts[3] (Go counts from 0)
Matches(meta, parts) ==
    /\ meta.Organisation = parts[2]
    /\ meta.Name = parts[3]
    /\ meta.Provider = parts[4]

\* one turn of the loop over mmc.Meta
ResolveScan(p) ==
    /\ cpc[p] = "r_scan"
    /\ IF cl[p].ridx > Len(Meta)
       THEN CatGoto(p, "r_runlock", [cl[p] EXCEPT !.path = NoPath, !.ok = FALSE])
       ELSE IF Matches(Meta[cl[p].ridx], cl[p].parts)
       THEN CatGoto(p, "r_runlock",
                    [cl[p] EXCEPT !.path = Meta[cl[p].ridx].LocalPath, !.ok = TRUE])
       ELSE CatGoto(p, "r_scan", [cl[p] EXCEPT !.ridx = @ + 1])
    /\ UNCHANGED <<Meta, mx, init, root, repo, pool, ops, rebuilds, setroots, builtSince, failed, ensureVars, localVars, helperVars>>

\* the deferred mmc.mx.RUnlock(), and the return
ResolveRUnlock(p) ==
    /\ cpc[p] = "r_runlock"
    /\ mx' = [mx EXCEPT !.readers = @ \ {p}]
    /\ CatReturn(p, cl[p])
    /\ UNCHANGED <<Meta, init, root, repo, pool, ops, rebuilds, setroots, builtSince, failed, ensureVars, localVars, helperVars>>

\* a unit calls GetModuleMetadataCatalog()
GetModuleMetadataCatalog(p) ==
    /\ cpc[p] = "idle" /\ ops[p] > 0
    /\ CatGoto(p, "g_check", [IdleCall EXCEPT !.op = "Get", !.meta0 = Meta])
    /\ ops' = [ops EXCEPT ![p] = @ - 1]
    /\ UNCHANGED <<Meta, mx, init, root, repo, pool, rebuilds, setroots, builtSince, failed, ensureVars, localVars, helperVars>>

\* if !mmc.init, read without the lock
GetCheckInit(p) ==
    /\ cpc[p] = "g_check"
    /\ IF init THEN CatReturn(p, cl[p]) ELSE CatGoto(p, "i_lock", cl[p])
    /\ UNCHANGED <<Meta, mx, init, root, repo, pool, ops, rebuilds, setroots, builtSince, failed, ensureVars, localVars, helperVars>>

\* a bug CanLock could have: readers do not keep the writer out
CanLock_DespiteReaders(m) == m.writer = 0

\* sync.RWMutex.Lock goes ahead when no writer and no reader holds the mutex
CanLock(m) == m.writer = 0 /\ m.readers = {}

\* Init: mmc.mx.Lock()
InitLock(p) ==
    /\ cpc[p] = "i_lock"
    /\ CanLock(mx)
    /\ mx' = [mx EXCEPT !.writer = p]
    /\ CatGoto(p, "i_glob", [cl[p] EXCEPT !.tookLock = TRUE, !.meta0 = Meta])
    /\ UNCHANGED <<Meta, init, root, repo, pool, ops, rebuilds, setroots, builtSince, failed, ensureVars, localVars, helperVars>>

\* Init: zglob.Glob(<root>/**/metadata.json)
InitGlob(p) ==
    /\ cpc[p] = "i_glob"
    /\ \E globOk \in BOOLEAN :
         IF globOk
         THEN /\ CatGoto(p, "i_make", [cl[p] EXCEPT !.matches = repo[root]])
              /\ UNCHANGED failed
         ELSE /\ CatGoto(p, "i_unlock", [cl[p] EXCEPT !.err = TRUE])
              /\ failed' = TRUE
    /\ UNCHANGED <<Meta, mx, init, root, repo, pool, ops, rebuilds, setroots, builtSince, ensureVars, localVars, helperVars>>

\* Init: mmc.Meta = make([]ModuleMetadata, 0)
InitMake(p) ==
    /\ cpc[p] = "i_make"
    /\ Meta' = <<>>
    /\ rebuilds' = rebuilds + 1
    /\ CatGoto(p, "i_file", [cl[p] EXCEPT !.midx = 1])
    /\ UNCHANGED <<mx, init, root, repo, pool, ops, setroots, builtSince, failed, ensureVars, localVars, helperVars>>

\* the entry Init builds from a metadata file
BuildModule(file) ==
    [Organisation |-> IF file.org = <<>> THEN Ovotech ELSE file.org,
     Name |-> file.name, Provider |-> file.provider, LocalPath |-> file.dir]

\* Init: one turn of the loop over the matches
InitFile(p) ==
    /\ cpc[p] = "i_file"
    /\ IF cl[p].midx > Len(cl[p].matches)
       THEN /\ CatGoto(p, "i_setinit", cl[p])
            /\ UNCHANGED <<Meta, failed>>
       ELSE IF cl[p].matches[cl[p].midx].status # "ok"
       THEN \* os.ReadFile or json.Unmarshal fails
            /\ CatGoto(p, "i_unlock", [cl[p] EXCEPT !.err = TRUE])
            /\ failed' = TRUE
            /\ UNCHANGED Meta
       ELSE /\ Meta' = Append(Meta, BuildModule(cl[p].matches[cl[p].midx]))
            /\ CatGoto(p, "i_file", [cl[p] EXCEPT !.midx = @ + 1])
            /\ UNCHANGED failed
    /\ UNCHANGED <<mx, init, root, repo, pool, ops, rebuilds, setroots, builtSince, ensureVars, localVars, helperVars>>

\* Init: mmc.init = true
InitSetInit(p) ==
    /\ cpc[p] = "i_setinit"
    /\ init' = TRUE
    /\ builtSince' = builtSince + 1
    /\ CatGoto(p, "i_unlock", cl[p])
    /\ UNCHANGED <<Meta, mx, root, repo, pool, ops, rebuilds, setroots, failed, ensureVars, localVars, helperVars>>

\* Init: the deferred mmc.mx.Unlock(); GetModuleMetadataCatalog returns
InitUnlock(p) ==
    /\ cpc[p] = "i_unlock"
    /\ mx' = [mx EXCEPT !.writer = 0]
    /\ CatReturn(p, cl[p])
    /\ UNCHANGED <<Meta, init, root, repo, pool, ops, rebuilds, setroots, builtSince, failed, ensureVars, localVars, helperVars>>

\* a bug SetRoot could have: the catalog stays marked as initialised
SetRoot_KeepsInit(p) ==
    /\ ~crashed
    /\ cpc[p] = "idle"
    /\ setroots < MaxSetRoots
    /\ \E r \in Roots : root' = r
    /\ setroots' = setroots + 1
    /\ builtSince' = 0
    /\ UNCHANGED <<Meta, mx, init, repo, pool, cpc, cl, ops, rebuilds, failed, ensureVars, localVars, helperVars>>

\* mmc.SetRoot(r)
SetRoot(p) ==
    /\ ~crashed
    /\ cpc[p] = "idle"
    /\ setroots < MaxSetRoots
    /\ \E r \in Roots :
         /\ root' = r
         /\ init' = FALSE
    /\ setroots' = setroots + 1
    /\ builtSince' = 0
    /\ UNCHANGED <<Meta, mx, repo, pool, cpc, cl, ops, rebuilds, failed, ensureVars, localVars, helperVars>>

ResolveNext ==
    \E p \in Procs :
        \/ ResolveCall(p) \/ ResolveSplit(p) \/ ResolveRLock(p) \/ ResolveScan(p)
        \/ ResolveRUnlock(p)

CatalogNext ==
    \E p \in Procs :
        \/ ResolveCall(p) \/ ResolveSplit(p) \/ ResolveRLock(p) \/ ResolveScan(p)
        \/ ResolveRUnlock(p)
        \/ GetModuleMetadataCatalog(p) \/ GetCheckInit(p)
        \/ InitLock(p) \/ InitGlob(p) \/ InitMake(p) \/ InitFile(p) \/ InitSetInit(p)
        \/ InitUnlock(p)
        \/ SetRoot(p)

\* one unit resolves one source string against a built catalog
ResolveInit ==
    /\ EnsureIdle
    /\ Meta \in Catalogs
    /\ mx = [writer |-> 0, readers |-> {}]
    /\ init = TRUE
    /\ root = "repo"
    /\ repo = [r \in {"repo"} |-> <<>>]
    /\ \E src \in Sources : pool = {src}
    /\ cpc = [p \in Procs |-> "idle"]
    /\ cl = [p \in Procs |-> IdleCall]
    /\ ops = [p \in Procs |-> IF p = 1 THEN 1 ELSE 0]
    /\ rebuilds = 0
    /\ setroots = 0
    /\ builtSince = 0
    /\ failed = FALSE
    /\ LocalIdle
    /\ HelpersIdle

SpecResolve == ResolveInit /\ [][ResolveNext]_vars

\* initModuleMetadataCatalog, and the units' calls to come
CatalogInit ==
    /\ EnsureIdle
    /\ Meta = <<>>
    /\ mx = [writer |-> 0, readers |-> {}]
    /\ init = FALSE
    /\ root = "repo"
    /\ repo \in Repos
    /\ pool = {[text |-> <<"\"", "h", "/", "a", "/", "b", "/", "a", "\"">>,
                segs |-> <<<<"h">>, <<"a">>, <<"b">>, <<"a">>>>],
               [text |-> <<"\"", ".", "/", "b", "\"">>, segs |-> <<<<".">>, <<"b">>>>]}
    /\ cpc = [p \in Procs |-> "idle"]
    /\ cl = [p \in Procs |-> IdleCall]
    /\ ops = [p \in Procs |-> MaxOps]
    /\ rebuilds = 0
    /\ setroots = 0
    /\ builtSince = 0
    /\ failed = FALSE
    /\ LocalIdle
    /\ HelpersIdle

SpecCatalog == CatalogInit /\ [][CatalogNext]_vars

\* no call of another unit is in progress
InTurn(p) == \A q \in Procs \ {p} : cpc[q] = "idle"

\* SetRoot and GetModuleMetadataCatalog called one after the other
SequentialNext ==
    \E p \in Procs :
        \/ InTurn(p) /\ GetModuleMetadataCatalog(p)
        \/ InTurn(p) /\ GetCheckInit(p)
        \/ InTurn(p) /\ InitLock(p)
        \/ InTurn(p) /\ InitGlob(p)
        \/ InTurn(p) /\ InitMake(p)
        \/ InTurn(p) /\ InitFile(p)
        \/ InTurn(p) /\ InitSetInit(p)
        \/ InTurn(p) /\ InitUnlock(p)
        \/ InTurn(p) /\ SetRoot(p)

SpecSequential == CatalogInit /\ [][SequentialNext]_vars

(***************************************************************************)
(* The metadata catalog: claims C7 to C9.                                  *)
(***************************************************************************)
\* the entry list a successful rebuild from the current root leaves
RECURSIVE BuiltFrom(_)
BuiltFrom(matches) ==
    IF matches = <<>> THEN <<>>
    ELSE <<BuildModule(Head(matches))>> \o BuiltFrom(Tail(matches))

\* C7: when several units call GetModuleMetadataCatalog before the catalog is built
\* (no SetRoot, no failing rebuild), exactly one rebuild executes, and a caller that
\* has returned holds the fully built catalog whenever no rebuild holds the lock.
C7_OneRebuild ==
    (setroots = 0 /\ ~failed)
        => /\ rebuilds <= 1
           /\ \A p \in Procs :
                (cl[p].op = "Get" /\ cl[p].done /\ mx.writer = 0)
                    => (init /\ Meta = BuiltFrom(repo[root]))

\* the call of p was a Resolve and has returned
Resolved(p) == cl[p].op = "Resolve" /\ cl[p].done

\* C8: for a source string that, trimmed of spaces and quotes, does not split on "/"
\* into exactly 4 segments, Resolve returns ("", false) whatever the catalog holds,
\* without taking the lock and leaving the catalog as it was.
C8_NotFourSegmentsNotFound ==
    \A p \in Procs :
        (Resolved(p) /\ Len(cl[p].src.segs) # 4)
            => /\ cl[p].ok = FALSE
               /\ cl[p].path = NoPath
               /\ ~cl[p].tookLock
               /\ mx = [writer |-> 0, readers |-> {}]
               /\ Meta = cl[p].meta0

C8_Witness ==
    \E p \in Procs :
        /\ Resolved(p)
        /\ Len(cl[p].src.segs) = 5
        /\ \E i \in 1..Len(Meta) :
              /\ Meta[i].Organisation = cl[p].src.segs[2]
              /\ Meta[i].Name = cl[p].src.segs[3]
              /\ Meta[i].Provider = cl[p].src.segs[4]

\* the entries whose (organisation, name, provider) are segments 2, 3 and 4
KeyMatches(segs) ==
    {i \in 1..Len(Meta) :
        <<Meta[i].Organisation, Meta[i].Name, Meta[i].Provider>> = <<segs[2], segs[3], segs[4]>>}

\* C9: for a source string of exactly 4 segments, Resolve returns found iff some entry's
\* (organisation, name, provider) equals segments 2, 3 and 4, whatever the first segment,
\* and the path is the localPath of the first such entry in registration order.
C9_FirstMatchingEntry ==
    \A p \in Procs :
        (Resolved(p) /\ Len(cl[p].src.segs) = 4)
            => LET hits == KeyMatches(cl[p].src.segs)
               IN  /\ cl[p].ok <=> hits # {}
                   /\ hits # {} =>
                        \E i \in hits : /\ \A j \in hits : i <= j
                                        /\ cl[p].path = Meta[i].LocalPath
                   /\ hits = {} => cl[p].path = NoPath

C9_Witness ==
    \E p \in Procs :
        /\ Resolved(p)
        /\ Len(cl[p].src.segs) = 4
        /\ Cardinality(KeyMatches(cl[p].src.segs)) = 2
        /\ cl[p].src.segs[1] # cl[p].src.segs[2]
        /\ cl[p].path = Meta[1].LocalPath

(***************************************************************************)
(* ModuleLocalizer: UpdateModuleSourcesToLocalPaths over a unit's working  *)
(* copy.  A unit's recursion is its stack of frames; its calls into the    *)
(* catalog run as the catalog's own steps.                                 *)
(***************************************************************************)
LAt(u, label) == ~crashed /\ lpc[u] = label

Top(u) == stack[u][Len(stack[u])]
SetTop(u, fr) == [stack EXCEPT ![u] = [@ EXCEPT ![Len(@)] = fr]]

\* files.CopyTerraformFolderToTemp leaves hidden files behind
Visible(entry) == entry.kind # "hidden"

\* a bug CopyOf could have: the copy holds no files
CopyOf_Nothing(content) == <<>>

CopyOf(content) == SelectSeq(content, Visible)

\* what the log of a unit keeps of a step
Event(ev, fr, target, from) ==
    [ev |-> ev, dir |-> fr.dir, fi |-> fr.fi, bi |-> fr.bi, target |-> target, from |-> from]
Logged(u, e) == events' = [events EXCEPT ![u] = Append(@, e)]

\* a bug Fatal could have: only the innermost call ends and its caller goes on
Fatal_InnermostOnly(u) ==
    IF Len(stack[u]) > 1
    THEN /\ lpc' = [lpc EXCEPT ![u] = "rewrite"]
         /\ stack' = [stack EXCEPT ![u] = SubSeq(@, 1, Len(@) - 1)]
    ELSE /\ lpc' = [lpc EXCEPT ![u] = "fatal"]
         /\ stack' = [stack EXCEPT ![u] = <<>>]

\* t.Fatalf: the unit's goroutine ends, whatever its depth
Fatal(u) ==
    /\ lpc' = [lpc EXCEPT ![u] = "fatal"]
    /\ stack' = [stack EXCEPT ![u] = <<>>]

\* the unit enters the catalog
CatCall(u, op, src) ==
    /\ cpc[u] = "idle"
    /\ cpc' = [cpc EXCEPT ![u] = IF op = "Get" THEN "g_check" ELSE "r_split"]
    /\ cl' = [cl EXCEPT ![u] = [IdleCall EXCEPT !.op = op, !.src = src, !.meta0 = Meta]]

\* the catalog call of u has returned
CatDone(u) == cpc[u] = "idle" /\ cl[u].done

\* t.Run(version, ...): dst := teststructure.CopyTerraformFolderToTemp(t, srcDir, "")
UnitCopy(u) ==
    /\ LAt(u, "idle") /\ u \in active
    /\ \E copyOk \in BOOLEAN :
         IF copyOk
         THEN /\ disk' = (DstDir(u) :> CopyOf(disk[SrcDir])) @@ disk
              /\ dst0' = [dst0 EXCEPT ![u] = CopyOf(disk[SrcDir])]
              /\ stack' = [stack EXCEPT ![u] = <<NewFrame(DstDir(u))>>]
              /\ lpc' = [lpc EXCEPT ![u] = "getcat"]
         ELSE /\ Fatal(u)
              /\ UNCHANGED <<disk, dst0>>
    /\ active' = active \ {u}
    /\ UNCHANGED <<ncopies, nwrites, events, cacheVars, helperVars, crashed, catalogVars>>

\* UpdateModuleSourcesToLocalPaths: metadata, err := GetModuleMetadataCatalog()
UpdateModuleSourcesToLocalPaths(u) ==
    /\ LAt(u, "getcat")
    /\ CatCall(u, "Get", NoSource)
    /\ lpc' = [lpc EXCEPT ![u] = "wait_get"]
    /\ UNCHANGED <<Meta, mx, init, root, repo, pool, ops, rebuilds, setroots, builtSince, failed>>
    /\ UNCHANGED <<disk, stack, ncopies, nwrites, dst0, active, events, cacheVars, helperVars, crashed>>

\* if err != nil { t.Fatalf(...) }
CatalogReturned(u) ==
    /\ LAt(u, "wait_get") /\ CatDone(u)
    /\ IF cl[u].err
       THEN Fatal(u)
       ELSE /\ lpc' = [lpc EXCEPT ![u] = "readdir"]
            /\ UNCHANGED stack
    /\ UNCHANGED <<disk, ncopies, nwrites, dst0, active, events, cacheVars, helperVars, crashed, catalogVars>>

\* IterateTerraformInDirectory: files, err := os.ReadDir(dir)
IterateTerraformInDirectory(u) ==
    /\ LAt(u, "readdir")
    /\ \E readOk \in BOOLEAN :
         IF readOk
         THEN /\ stack' = SetTop(u, [Top(u) EXCEPT !.listing = disk[Top(u).dir], !.fi = 1])
              /\ lpc' = [lpc EXCEPT ![u] = "file"]
         ELSE Fatal(u)
    /\ UNCHANGED <<disk, ncopies, nwrites, dst0, active, events, cacheVars, helperVars, crashed, catalogVars>>

\* a bug LocalizeReturn could have: the first return ends the whole walk
LocalizeReturn_ToDriver(u) ==
    /\ stack' = [stack EXCEPT ![u] = <<>>]
    /\ lpc' = [lpc EXCEPT ![u] = "done"]
    /\ UNCHANGED events

\* the callee's loop is over: UpdateModuleSourcesToLocalPaths returns to the block
\* that called it, or to the test driver
LocalizeReturn(u) ==
    /\ stack' = [stack EXCEPT ![u] = SubSeq(@, 1, Len(@) - 1)]
    /\ lpc' = [lpc EXCEPT ![u] = IF Len(stack[u]) = 1 THEN "done" ELSE "rewrite"]
    /\ IF Len(stack[u]) = 1
       THEN UNCHANGED events
       ELSE Logged(u, Event("localized", stack[u][Len(stack[u]) - 1], Top(u).dir, NoPath))

\* one turn of the loop over the directory's entries, up to the callback
IterateFile(u) ==
    /\ LAt(u, "file")
    /\ LET fr == Top(u)
       IN  IF fr.fi > Len(fr.listing)
           THEN LocalizeReturn(u)
           ELSE IF fr.listing[fr.fi].kind # "tf"
           THEN \* file.IsDir(), or no .tf suffix
                /\ stack' = SetTop(u, [fr EXCEPT !.fi = @ + 1])
                /\ UNCHANGED <<lpc, events>>
           ELSE IF disk[fr.dir][fr.fi].status # "ok"
           THEN \* os.ReadFile or hclwrite.ParseConfig fails
                Fatal(u) /\ UNCHANGED events
           ELSE /\ stack' = SetTop(u, [fr EXCEPT !.f = disk[fr.dir][fr.fi].blocks,
                                                 !.bi = 1, !.hasChanges = FALSE])
                /\ lpc' = [lpc EXCEPT ![u] = "block"]
                /\ UNCHANGED events
    /\ UNCHANGED <<disk, ncopies, nwrites, dst0, active, cacheVars, helperVars, crashed, catalogVars>>

\* block.Type() != "module" || len(block.Labels()) != 1 does not hold
SingleLabelModule(block) == block.type = "module" /\ block.labels = 1

\* one turn of the loop over the file's blocks, up to metadata.Resolve(source)
ModuleBlock(u) ==
    /\ LAt(u, "block")
    /\ LET fr == Top(u)
       IN  IF fr.bi > Len(fr.f)
           THEN /\ lpc' = [lpc EXCEPT ![u] = "write"]
                /\ UNCHANGED <<stack, cpc, cl, crashed>>
           ELSE IF ~SingleLabelModule(fr.f[fr.bi])
           THEN /\ stack' = SetTop(u, [fr EXCEPT !.bi = @ + 1])
                /\ UNCHANGED <<lpc, cpc, cl, crashed>>
           ELSE IF ~fr.f[fr.bi].hasSource
           THEN \* GetAttribute("source") is nil: Expr() panics
                /\ crashed' = TRUE
                /\ lpc' = [lpc EXCEPT ![u] = "panicked"]
                /\ UNCHANGED <<stack, cpc, cl>>
           ELSE /\ CatCall(u, "Resolve", fr.f[fr.bi].source)
                /\ lpc' = [lpc EXCEPT ![u] = "wait_resolve"]
                /\ UNCHANGED <<stack, crashed>>
    /\ UNCHANGED <<Meta, mx, init, root, repo, pool, ops, rebuilds, setroots, builtSince, failed>>
    /\ UNCHANGED <<disk, ncopies, nwrites, dst0, active, events, cacheVars, helperVars>>

\* if !ok { continue }
SourceResolved(u) ==
    /\ LAt(u, "wait_resolve") /\ CatDone(u)
    /\ IF cl[u].ok
       THEN /\ lpc' = [lpc EXCEPT ![u] = "copy"]
            /\ UNCHANGED stack
       ELSE /\ lpc' = [lpc EXCEPT ![u] = "block"]
            /\ stack' = SetTop(u, [Top(u) EXCEPT !.bi = @ + 1])
    /\ UNCHANGED <<disk, ncopies, nwrites, dst0, active, events, cacheVars, helperVars, crashed, catalogVars>>

\* target, err := files.CopyTerraformFolderToTemp(path, cleanName(t.Name())), and
\* the call UpdateModuleSourcesToLocalPaths(t, target)
CopyTerraformFolderToTemp(u) ==
    /\ LAt(u, "copy")
    /\ \E copyOk \in BOOLEAN :
         IF copyOk
         THEN /\ ncopies[u] < MaxCopies
              /\ LET target == TempDir(u, ncopies[u] + 1)
                 IN  /\ disk' = (target :> CopyOf(disk[cl[u].path])) @@ disk
                     /\ stack' = [stack EXCEPT ![u] =
                                    Append(SetTop(u, [Top(u) EXCEPT !.target = target])[u],
                                           NewFrame(target))]
              /\ ncopies' = [ncopies EXCEPT ![u] = @ + 1]
              /\ lpc' = [lpc EXCEPT ![u] = "getcat"]
              /\ Logged(u, Event("copy", Top(u), TempDir(u, ncopies[u] + 1), cl[u].path))
         ELSE /\ Fatal(u)
              /\ UNCHANGED <<disk, ncopies, events>>
    /\ UNCHANGED <<nwrites, dst0, active, cacheVars, helperVars, crashed, catalogVars>>

\* a bug Rewritten could have: the version attribute stays
Rewritten_KeepsVersion(block, target) == [block EXCEPT !.source = LocalSource(target)]

\* the block after SetAttributeValue("source", ...) and RemoveAttribute("version")
Rewritten(block, target) ==
    [block EXCEPT !.source = LocalSource(target), !.version = FALSE]

\* block.Body().SetAttributeValue("source", cty.StringVal(target)),
\* block.Body().RemoveAttribute("version"), hasChanges = true
SetAttributeValue(u) ==
    /\ LAt(u, "rewrite")
    /\ LET fr == Top(u)
       IN  /\ stack' = SetTop(u, [fr EXCEPT
                                    !.f = [@ EXCEPT ![fr.bi] = Rewritten(@, fr.target)],
                                    !.hasChanges = TRUE,
                                    !.target = NoPath,
                                    !.bi = @ + 1])
           /\ Logged(u, Event("rewrite", fr, fr.target, NoPath))
    /\ lpc' = [lpc EXCEPT ![u] = "block"]
    /\ UNCHANGED <<disk, ncopies, nwrites, dst0, active, cacheVars, helperVars, crashed, catalogVars>>

\* a bug ShouldWrite could have: every parsed file is written back
ShouldWrite_Always(fr) == TRUE

\* if hasChanges
ShouldWrite(fr) == fr.hasChanges

\* the end of the callback: os.WriteFile(filename, f.Bytes(), 0666) if hasChanges
WriteFile(u) ==
    /\ LAt(u, "write")
    /\ LET fr == Top(u)
       IN  IF ShouldWrite(fr)
           THEN \E writeOk \in BOOLEAN :
                  IF writeOk
                  THEN /\ disk' = [disk EXCEPT ![fr.dir] =
                                     [@ EXCEPT ![fr.fi] = [@ EXCEPT !.blocks = fr.f]]]
                       /\ nwrites' = [nwrites EXCEPT ![u] = @ + 1]
                       /\ stack' = SetTop(u, [fr EXCEPT !.fi = @ + 1])
                       /\ lpc' = [lpc EXCEPT ![u] = "file"]
                       /\ Logged(u, Event("write", fr, NoPath, NoPath))
                  ELSE /\ Fatal(u)
                       /\ UNCHANGED <<disk, nwrites, events>>
           ELSE /\ stack' = SetTop(u, [fr EXCEPT !.fi = @ + 1])
                /\ lpc' = [lpc EXCEPT ![u] = "file"]
                /\ UNCHANGED <<disk, nwrites, events>>
    /\ UNCHANGED <<ncopies, dst0, active, cacheVars, helperVars, crashed, catalogVars>>

LocalizeNext ==
    \E u \in Procs :
        \/ UnitCopy(u) \/ UpdateModuleSourcesToLocalPaths(u) \/ CatalogReturned(u)
        \/ IterateTerraformInDirectory(u) \/ IterateFile(u) \/ ModuleBlock(u)
        \/ SourceResolved(u) \/ CopyTerraformFolderToTemp(u) \/ SetAttributeValue(u)
        \/ WriteFile(u)
        \/ GetCheckInit(u) \/ InitLock(u) \/ InitGlob(u) \/ InitMake(u) \/ InitFile(u)
        \/ InitSetInit(u) \/ InitUnlock(u)
        \/ ResolveSplit(u) \/ ResolveRLock(u) \/ ResolveScan(u) \/ ResolveRUnlock(u)

\* a test driver about to start its units on a repository
LocalizeInit ==
    /\ EnsureIdle
    /\ Meta = <<>>
    /\ mx = [writer |-> 0, readers |-> {}]
    /\ init = FALSE
    /\ root = "repo"
    /\ repo = LocalRepo
    /\ pool = {}
    /\ cpc = [p \in Procs |-> "idle"]
    /\ cl = [p \in Procs |-> IdleCall]
    /\ ops = [p \in Procs |-> 0]
    /\ rebuilds = 0
    /\ setroots = 0
    /\ builtSince = 0
    /\ failed = FALSE
    /\ \E w \in Worlds :
         disk = (SrcDir :> w.src) @@ (LocalDir(1) :> w.m1) @@ (LocalDir(2) :> w.m2)
    /\ lpc = [u \in Procs |-> "idle"]
    /\ stack = [u \in Procs |-> <<>>]
    /\ ncopies = [u \in Procs |-> 0]
    /\ nwrites = [u \in Procs |-> 0]
    /\ dst0 = [u \in Procs |-> <<>>]
    /\ active \in {1..n : n \in 1..NProcs}
    /\ events = [u \in Procs |-> <<>>]
    /\ HelpersIdle

SpecLocalize == LocalizeInit /\ [][LocalizeNext]_vars

\* the test process is not stopped while a unit has a step to take
SpecLocalizeFair == SpecLocalize /\ WF_vars(LocalizeNext)

(***************************************************************************)
(* The module localizer: claim C10.                                        *)
(***************************************************************************)
\* the single-label module blocks of a directory's parsed .tf files
ModuleSources(content) ==
    {content[i].blocks[j].source :
        <<i, j>> \in {x \in (1..Len(content)) \X (1..MaxBlocks) :
                        /\ content[x[1]].kind = "tf"
                        /\ x[2] <= Len(content[x[1]].blocks)
                        /\ content[x[1]].blocks[x[2]].type = "module"
                        /\ content[x[1]].blocks[x[2]].labels = 1
                        /\ content[x[1]].blocks[x[2]].hasSource}}

\* the source names a module of the catalog built from the root
Resolvable(src) ==
    /\ Len(src.segs) = 4
    /\ \E i \in 1..Len(repo[root]) :
         LET m == BuildModule(repo[root][i])
         IN  <<m.Organisation, m.Name, m.Provider>> = <<src.segs[2], src.segs[3], src.segs[4]>>

\* the folders the unit has made besides its working copy
TempDirsOf(u) == {TempDir(u, k) : k \in 1..MaxCopies} \cap DOMAIN disk

\* C10: on a tree in which no single-label module block has a source that resolves in
\* the catalog, UpdateModuleSourcesToLocalPaths writes no file, makes no temporary copy
\* and leaves every file of the tree as it was.
C10_NothingResolvableNothingChanged ==
    \A u \in Procs :
        (DstDir(u) \in DOMAIN disk /\ \A src \in ModuleSources(dst0[u]) : ~Resolvable(src))
            => /\ nwrites[u] = 0
               /\ ncopies[u] = 0
               /\ TempDirsOf(u) = {}
               /\ disk[DstDir(u)] = dst0[u]

C10_Witness ==
    \E u \in Procs :
        /\ lpc[u] = "done"
        /\ Len(Meta) = 2
        /\ \A src \in ModuleSources(dst0[u]) : ~Resolvable(src)
        /\ \E src \in ModuleSources(dst0[u]) : Len(src.segs) = 4
        /\ \E src \in ModuleSources(dst0[u]) : Len(src.segs) = 2
        /\ disk[DstDir(u)] = dst0[u]

(***************************************************************************)
(* The module localizer: claims C11 to C14.                                *)
(***************************************************************************)
\* the event is about the same block, or the same file, as e
SameBlock(e, x) == x.dir = e.dir /\ x.fi = e.fi /\ x.bi = e.bi /\ x.target = e.target
SameFile(e, x) == x.dir = e.dir /\ x.fi = e.fi

\* the catalog entry the source names: the first whose key is segments 2, 3 and 4
EntryOf(src) ==
    LET built == BuiltFrom(repo[root])
        hits == {i \in 1..Len(built) :
                   <<built[i].Organisation, built[i].Name, built[i].Provider>>
                       = <<src.segs[2], src.segs[3], src.segs[4]>>}
    IN  built[CHOOSE i \in hits : \A j \in hits : i <= j]

\* the steps logged so far are in the order copy, localization of the copy (everything
\* copied inside it rewritten and written), rewrite, write
StepsInOrder(u) ==
    LET ev == events[u]
    IN  \A k \in 1..Len(ev) :
          /\ ev[k].ev = "rewrite" =>
                \E i \in 1..k, j \in 1..k :
                   /\ i < j /\ j < k
                   /\ ev[i].ev = "copy" /\ SameBlock(ev[k], ev[i])
                   /\ ev[j].ev = "localized" /\ SameBlock(ev[k], ev[j])
                   /\ \A m \in (i + 1)..(j - 1) :
                        ev[m].ev = "copy" =>
                           \E n \in (m + 1)..(j - 1) : ev[n].ev = "write" /\ SameFile(ev[m], ev[n])
          /\ ev[k].ev = "write" =>
                /\ \E j \in 1..(k - 1) : ev[j].ev = "rewrite" /\ SameFile(ev[k], ev[j])
                /\ \A i \in 1..(k - 1) :
                      (ev[i].ev = "copy" /\ SameFile(ev[k], ev[i])) =>
                         \E j \in (i + 1)..(k - 1) : ev[j].ev = "rewrite" /\ SameBlock(ev[i], ev[j])

\* after success every block that was copied for is rewritten to its own fresh copy of
\* the entry's tree, its version attribute is gone, and the file holding it is written
AllRewritten(u) ==
    LET ev == events[u]
    IN  /\ \A i \in 1..Len(ev) :
              ev[i].ev = "copy" =>
                 /\ \E j \in (i + 1)..Len(ev), n \in (i + 1)..Len(ev) :
                       /\ j < n
                       /\ ev[j].ev = "rewrite" /\ SameBlock(ev[i], ev[j])
                       /\ ev[n].ev = "write" /\ SameFile(ev[i], ev[n])
                 /\ ev[i].target \in DOMAIN disk
                 /\ ev[i].target \notin {SrcDir, LocalDir(1), LocalDir(2)}
                 /\ \A m \in 1..Len(ev) :
                       (ev[m].ev = "copy" /\ m # i) => ev[m].target # ev[i].target
                 /\ Len(disk[ev[i].target]) = Len(CopyOf(disk[ev[i].from]))
                 /\ LET b == disk[ev[i].dir][ev[i].fi].blocks[ev[i].bi]
                    IN  /\ b.source = LocalSource(ev[i].target)
                        /\ ~b.version
        /\ \A i \in 1..Len(dst0[u]) : \A j \in 1..Len(dst0[u][i].blocks) :
              LET b0 == dst0[u][i].blocks[j]
              IN  (SingleLabelModule(b0) /\ b0.hasSource /\ Resolvable(b0.source)) =>
                     \E k \in 1..Len(ev) :
                        /\ ev[k].ev = "copy"
                        /\ <<ev[k].dir, ev[k].fi, ev[k].bi>> = <<DstDir(u), i, j>>
                        /\ ev[k].from = EntryOf(b0.source).LocalPath

\* C11: after UpdateModuleSourcesToLocalPaths succeeds every single-label module block
\* whose source resolved has its source set to a fresh temporary copy of the entry's local
\* tree and no version attribute, and for each block the steps come in the order copy,
\* full localization of the copy, rewrite of the block, write of the file.
C11_CopyLocalizeRewriteWrite ==
    \A u \in Procs :
        /\ StepsInOrder(u)
        /\ lpc[u] = "done" => AllRewritten(u)

C11_Witness ==
    \E u \in Procs :
        /\ lpc[u] = "done"
        /\ Len(events[u]) = 8
        /\ \E i \in 1..Len(dst0[u]) : \E j \in 1..Len(dst0[u][i].blocks) :
              dst0[u][i].blocks[j].version /\ Resolvable(dst0[u][i].blocks[j].source)

\* the folders of a unit: its working copy and its temporary copies
OwnDirs(u) == {DstDir(u)} \cup {TempDir(u, k) : k \in 1..MaxCopies}

\* the step ends a call of the unit that had not finished its loop
Aborts(u) ==
    /\ Len(stack'[u]) < Len(stack[u])
    /\ events'[u] = events[u]
    /\ lpc'[u] # "done"

\* the step leaves everything of the unit as it is
Frozen(u) ==
    /\ lpc'[u] = lpc[u] /\ stack'[u] = stack[u] /\ events'[u] = events[u]
    /\ ncopies'[u] = ncopies[u] /\ nwrites'[u] = nwrites[u]
    /\ cpc'[u] = cpc[u] /\ cl'[u] = cl[u]
    /\ \A d \in OwnDirs(u) :
         /\ d \in DOMAIN disk' <=> d \in DOMAIN disk
         /\ d \in DOMAIN disk => disk'[d] = disk[d]

\* C12: a read, parse, copy or write error at any recursion depth ends the whole
\* localization of that unit with a fatal failure: the step of the error leaves no call
\* of the unit running, and from then on the unit processes no block and no file and
\* never goes on as if localized.
C12_ErrorEndsLocalization ==
    [][\A u \in Procs :
          /\ Aborts(u) => (lpc'[u] = "fatal" /\ stack'[u] = <<>> /\ disk' = disk)
          /\ lpc[u] = "fatal" => Frozen(u)]_vars

\* an error three calls deep: the copy made for the working copy's block and the copy
\* made inside that copy were both still being localized
C12_Witness ==
    \E u \in Procs :
        /\ lpc[u] = "fatal"
        /\ Len(events[u]) = 2
        /\ events[u][1].ev = "copy" /\ events[u][1].dir = DstDir(u)
        /\ events[u][2].ev = "copy" /\ events[u][2].dir = events[u][1].target

\* the local paths of the catalog's entries
CatalogDirs == {repo[root][i].dir : i \in 1..Len(repo[root])}

\* the directories the unit has written a file in, and those it made as copies
WrittenDirs(u) == {events[u][i].dir : i \in {k \in 1..Len(events[u]) : events[u][k].ev = "write"}}
CopiedDirs(u) == {events[u][i].target : i \in {k \in 1..Len(events[u]) : events[u][k].ev = "copy"}}

\* a unit writes in its working copy and in copies it made, each copy made once
WritesInOwnCopies ==
    /\ \A u \in Procs :
         /\ WrittenDirs(u) \subseteq ({DstDir(u)} \cup CopiedDirs(u))
         /\ WrittenDirs(u) \cap ({SrcDir} \cup CatalogDirs) = {}
         /\ \A i, j \in 1..Len(events[u]) :
               (events[u][i].ev = "copy" /\ events[u][j].ev = "copy" /\ i # j)
                   => events[u][i].target # events[u][j].target
    /\ \A u, v \in Procs :
         u # v => (({DstDir(u)} \cup CopiedDirs(u)) \cap ({DstDir(v)} \cup CopiedDirs(v)) = {})

\* a step changes a directory only by a logged write of a unit in the directory of its
\* running call, and never the module under test or a catalog entry's tree
OnlyLoggedWrites ==
    \A d \in DOMAIN disk :
        disk'[d] # disk[d] =>
            /\ d \notin ({SrcDir} \cup CatalogDirs)
            /\ \E u \in Procs :
                 /\ Len(events'[u]) = Len(events[u]) + 1
                 /\ events'[u][Len(events'[u])].ev = "write"
                 /\ events'[u][Len(events'[u])].dir = d

AcquireOutcomes == {"path", "error", "empty", "panic"}

\* binaryPath := DownloadTerraformVersion(t, version)
DownloadTerraformVersion(u) ==
    /\ LAt(u, "done")
    /\ \E outcome \in AcquireOutcomes :
         /\ lpc' = [lpc EXCEPT ![u] = CASE outcome = "error" -> "fatal"
                                        [] outcome = "panic" -> "panicked"
                                        [] OTHER -> "plan"]
         /\ crashed' = (outcome = "panic")
    /\ UNCHANGED <<disk, stack, ncopies, nwrites, dst0, active, events, cacheVars, helperVars, catalogVars>>

\* terraform.InitAndPlan(t, tfOptions)
InitAndPlan(u) ==
    /\ LAt(u, "plan")
    /\ \E planOk \in BOOLEAN :
         lpc' = [lpc EXCEPT ![u] = IF planOk THEN "finished" ELSE "fatal"]
    /\ UNCHANGED <<disk, stack, ncopies, nwrites, dst0, active, events, cacheVars, helperVars, crashed,
                   catalogVars>>

UnitsNext ==
    \/ LocalizeNext
    \/ \E u \in Procs : DownloadTerraformVersion(u) \/ InitAndPlan(u)

SpecUnits == LocalizeInit /\ [][UnitsNext]_vars

\* the unit's body is running
Running(u) == lpc[u] \notin {"idle", "finished", "fatal", "panicked"}

\* C14: a fatal error inside one unit ends only that unit: no unit whose body is running
\* is stopped because another unit failed, so every started sibling goes on to its own
\* completion or its own failure.
C14_FailureEndsOnlyItsUnit ==
    \A u \in Procs : Running(u) => ~crashed

(***************************************************************************)
(* VersionSet: the driver's choice of versions, and the calls of           *)
(* GetMatchingVersionsE and FilterMinorVersionsE.                          *)
(***************************************************************************)
versionFrame == <<ensureVars, catalogVars, localVars, listVars, editVars>>

\* TerraformVersionsTest: filteredAvailable := filterBlockedTerraformVersion(available)
TerraformVersionsTest ==
    /\ vop = "driver" /\ vpc = "filter"
    /\ filtered' = filterBlockedTerraformVersion(listing, blocklist, clearsTail)
    /\ vpc' = "match"
    /\ UNCHANGED <<listing, blocklist, constraint, clearsTail, vop, matched, grouped, regrouped,
                   started, parsedVersion, versionFrame>>

\* versions := GetMatchingVersions(t, constraint, filteredAvailable)
GetMatchingVersions ==
    /\ vop = "driver" /\ vpc = "match"
    /\ matched' = GetMatchingVersionsE(constraint, filtered)
    /\ vpc' = IF matched'.err THEN "fatal" ELSE "run"
    /\ UNCHANGED <<listing, blocklist, constraint, clearsTail, vop, filtered, grouped, regrouped,
                   started, parsedVersion, versionFrame>>

\* for _, version := range versions { t.Run(version, ...) }
RunVersion ==
    /\ vop = "driver" /\ vpc = "run"
    /\ IF Len(started) < Len(matched.vers)
       THEN /\ started' = Append(started, matched.vers[Len(started) + 1])
            /\ UNCHANGED vpc
       ELSE /\ vpc' = "returned"
            /\ UNCHANGED started
    /\ UNCHANGED <<listing, blocklist, constraint, clearsTail, vop, filtered, matched, grouped,
                   regrouped, parsedVersion, versionFrame>>

\* a call of GetMatchingVersionsE(constraint, versions)
CallGetMatchingVersionsE ==
    /\ vop = "matching" /\ vpc = "call"
    /\ matched' = GetMatchingVersionsE(constraint, listing)
    /\ vpc' = "returned"
    /\ UNCHANGED <<listing, blocklist, constraint, clearsTail, vop, filtered, grouped, regrouped,
                   started, parsedVersion, versionFrame>>

\* a call of FilterMinorVersionsE(versions)
CallFilterMinorVersionsE ==
    /\ vop = "grouping" /\ vpc = "call"
    /\ grouped' = FilterMinorVersionsE(listing)
    /\ vpc' = IF grouped'.err THEN "returned" ELSE "again"
    /\ UNCHANGED <<listing, blocklist, constraint, clearsTail, vop, filtered, matched, regrouped,
                   started, parsedVersion, versionFrame>>

\* a call of FilterMinorVersionsE on what the call before returned
CallFilterMinorVersionsAgain ==
    /\ vop = "grouping" /\ vpc = "again"
    /\ regrouped' = FilterMinorVersionsE(grouped.vers)
    /\ vpc' = "returned"
    /\ UNCHANGED <<listing, blocklist, constraint, clearsTail, vop, filtered, matched, grouped,
                   started, parsedVersion, versionFrame>>

\* a call of parseVersion(v)
CallParseVersion ==
    /\ vop = "parsing" /\ vpc = "call"
    /\ parsedVersion' = parseVersion(listing[1])
    /\ vpc' = "returned"
    /\ UNCHANGED <<listing, blocklist, constraint, clearsTail, vop, filtered, matched, grouped,
                   regrouped, started, versionFrame>>

VersionsNext ==
    \/ TerraformVersionsTest \/ GetMatchingVersions \/ RunVersion
    \/ CallGetMatchingVersionsE
    \/ CallFilterMinorVersionsE \/ CallFilterMinorVersionsAgain
    \/ CallParseVersion

VersionsInit ==
    /\ EnsureIdle /\ CatalogIdle /\ LocalIdle /\ ListIdle /\ EditIdle
    /\ vop \in {"driver", "matching", "grouping", "parsing"}
    /\ listing \in (IF vop = "parsing" THEN {<<v>> : v \in ParseInputs} ELSE Lists)
    /\ vpc = IF vop = "driver" THEN "filter" ELSE "call"
    /\ blocklist \in (IF vop = "driver" THEN Blocklists ELSE {BlockedTerraformVersions})
    /\ clearsTail \in (IF vop = "driver" THEN BOOLEAN ELSE {FALSE})
    /\ constraint \in (IF vop \in {"grouping", "parsing"} THEN {[wellFormed |-> FALSE, clauses |-> <<>>]}
                       ELSE Constraints)
    /\ filtered = <<>>
    /\ matched = NoResult
    /\ grouped = NoResult
    /\ regrouped = NoResult
    /\ started = <<>>
    /\ parsedVersion = NoVersion

SpecVersions == VersionsInit /\ [][VersionsNext]_vars

(***************************************************************************)
(* VersionSet: claims C15 to C20.                                          *)
(***************************************************************************)
Range(seq) == {seq[i] : i \in 1..Len(seq)}
Count(seq, x) == Cardinality({i \in 1..Len(seq) : seq[i] = x})

\* what the strings of the runs say, read off the strings themselves: whether it is a
\* version, its canonical spelling, and its minor line
V123 == <<"1", ".", "2", ".", "3">>
V190 == <<"1", ".", "9", ".", "0">>
IsVersion(v) == v # Vx10
Canonical(v) == CASE v = Vv123 -> V123 [] v = V12 -> V120 [] OTHER -> v
IsFullVersion(v) == v \notin {Vx10, V12}
MinorLine(v) == CASE v = Vv123 -> V120 [] v = V195 -> V190 [] OTHER -> v

\* the order of versions as numbers: 1.0.0 < 1.2.0 < 1.2.3 < 1.9.5 < 1.10.0 < 2.0.0
Rank(v) ==
    CASE Canonical(v) = V100 -> 1 [] Canonical(v) = V120 -> 2 [] Canonical(v) = V123 -> 3
      [] Canonical(v) = V195 -> 4 [] Canonical(v) = V1100 -> 5 [] Canonical(v) = V200 -> 6

\* the version satisfies the constraint
Satisfies(want, v) ==
    \A i \in 1..Len(want.clauses) :
        CASE want.clauses[i].op = ">=" -> Rank(v) >= Rank(want.clauses[i].ver)
          [] want.clauses[i].op = "<" -> Rank(v) < Rank(want.clauses[i].ver)
          [] want.clauses[i].op = "=" -> Rank(v) = Rank(want.clauses[i].ver)

\* C15: TerraformVersionsTest starts exactly one unit for each version of the listing
\* that satisfies the constraint and is not on the blocklist, no such version skipped and
\* no other version run, whether or not a blocklisted version occurs in the listing.
C15_OneUnitPerMatchingVersion ==
    (vop = "driver" /\ vpc = "returned")
        => \A c \in {Canonical(v) : v \in VersionPool \ {Vx10}} \cup Range(started) :
              Count(started, c)
                 = Cardinality({i \in 1..Len(listing) :
                                   /\ Canonical(listing[i]) = c
                                   /\ listing[i] \notin Range(blocklist)
                                   /\ Satisfies(constraint, listing[i])})

\* C16: for a well-formed constraint and a list of parseable versions GetMatchingVersionsE
\* returns exactly the input versions that satisfy the constraint, in input order.
C16_MatchingIsSublistOfInput ==
    (vop = "matching" /\ vpc = "returned" /\ constraint.wellFormed
        /\ \A i \in 1..Len(listing) : IsVersion(listing[i]))
        => /\ ~matched.err
           /\ matched.vers = SelectSeq(listing, LAMBDA v : Satisfies(constraint, v))

\* C17: GetMatchingVersionsE fails atomically: with a malformed constraint, or with a
\* version that does not parse anywhere in the input, it returns an error and no versions.
C17_MatchingFailsAtomically ==
    (vop = "matching" /\ vpc = "returned"
        /\ (~constraint.wellFormed \/ \E i \in 1..Len(listing) : ~IsVersion(listing[i])))
        => (matched.err /\ matched.vers = <<>>)

\* versions that satisfy the constraint come before one that does not parse
C17_Witness ==
    /\ vop = "matching" /\ vpc = "returned"
    /\ constraint.wellFormed
    /\ Len(listing) = 3
    /\ Satisfies(constraint, listing[1]) /\ IsVersion(listing[1])
    /\ ~IsVersion(listing[2])
    /\ IsVersion(listing[3]) /\ Satisfies(constraint, listing[3])
    /\ matched.err

\* C18: for every input list and every blocklist filterBlocked returns the sorted input
\* with one occurrence of each blocklisted value found removed and every other element
\* kept, whatever the input order and whether or not a blocklisted value occurs.
C18_FilterRemovesBlockedOnly ==
    (vop = "driver" /\ vpc # "filter")
        => /\ \A i, j \in 1..Len(filtered) : i < j => ~StrLess(filtered[j], filtered[i])
           /\ \A x \in VersionPool \cup Range(filtered) :
                 Count(filtered, x)
                    = Count(listing, x)
                        - (IF x \in Range(blocklist) /\ Count(listing, x) > 0 THEN 1 ELSE 0)

\* C19: FilterMinorVersionsE is idempotent: on its own output it succeeds and returns
\* that output.
C19_GroupingIsIdempotent ==
    (vop = "grouping" /\ vpc = "returned" /\ ~grouped.err)
        => (~regrouped.err /\ regrouped.vers = grouped.vers)

C19_Witness ==
    /\ vop = "grouping" /\ vpc = "returned"
    /\ listing = <<V1100, Vv123, V195>>
    /\ regrouped.vers = <<V1100, V120, V190>>

\* C20: for a list of valid version strings the output of FilterMinorVersionsE holds
\* exactly one "MAJOR.MINOR.0" for each (major, minor) of the input and nothing else,
\* without duplicates, in ascending lexicographic order.
C20_OnePerMinorLine ==
    (vop = "grouping" /\ vpc # "call" /\ \A i \in 1..Len(listing) : IsFullVersion(listing[i]))
        => /\ ~grouped.err
           /\ Range(grouped.vers) = {MinorLine(listing[i]) : i \in 1..Len(listing)}
           /\ \A i, j \in 1..Len(grouped.vers) : i < j => StrLess(grouped.vers[i], grouped.vers[j])

C20_Witness ==
    /\ vop = "grouping" /\ vpc = "returned"
    /\ listing = <<Vv123, V1100, V120>>
    /\ grouped.vers = <<V1100, V120>>

(***************************************************************************)
(* GetAvailableVersionsE: one request per turn of the loop.                *)
(***************************************************************************)
listFrame == <<ensureVars, catalogVars, localVars, versionVars, editVars>>

\* a bug After could have: the cursor is taken from the first item of the page
After_FirstItem(page) == Cursor(page[1].timestamp_created)

\* req after the inner loop: "after" is the timestamp_created of the last item
After(page) == Cursor(page[Len(page)].timestamp_created)

RECURSIVE VersionsOf(_)
VersionsOf(page) ==
    IF page = <<>> THEN <<>> ELSE <<Head(page).version>> \o VersionsOf(Tail(page))

\* client.Get(req), io.ReadAll and json.Unmarshal: a page arrives, or one of them fails
\* and the call returns nil and the error
HttpGetPage ==
    /\ apc = "get"
    /\ requested' = Append(requested, pageReq)
    /\ \/ \E page \in Pages(relIndex, pageReq) :
            /\ pageResult' = page
            /\ received' = Append(received, page)
            /\ apc' = "page"
            /\ UNCHANGED listed
       \/ /\ apc' = "failed"
          /\ listed' = [vers |-> <<>>, err |-> TRUE]
          /\ UNCHANGED <<pageResult, received>>
    /\ UNCHANGED <<relIndex, pageReq, allVersions, listFrame>>

\* if len(result) == 0 { break }; otherwise every version is appended and req is set
AppendPage ==
    /\ apc = "page"
    /\ IF pageResult = <<>>
       THEN /\ apc' = "returned"
            /\ listed' = [vers |-> allVersions, err |-> FALSE]
            /\ UNCHANGED <<pageReq, allVersions>>
       ELSE /\ allVersions' = allVersions \o VersionsOf(pageResult)
            /\ pageReq' = After(pageResult)
            /\ apc' = "get"
            /\ UNCHANGED listed
    /\ UNCHANGED <<relIndex, pageResult, requested, received, listFrame>>

ListNext == HttpGetPage \/ AppendPage

ListInit ==
    /\ EnsureIdle /\ CatalogIdle /\ LocalIdle /\ VersionIdle /\ EditIdle
    /\ relIndex \in Indexes
    /\ pageReq = NoCursor
    /\ pageResult = <<>>
    /\ allVersions = <<>>
    /\ requested = <<>>
    /\ received = <<>>
    /\ apc = "get"
    /\ listed = NoResult

\* the call is never stopped half way
SpecList == ListInit /\ [][ListNext]_vars /\ WF_vars(ListNext)

(***************************************************************************)
(* UpdateModuleSourceAndVersionE and UpdateProviderVersionE: the loop of   *)
(* IterateTerraformInDirectory over the entries, and the callback of each. *)
(***************************************************************************)
editFrame == <<ensureVars, catalogVars, localVars, versionVars, listVars>>

Did(ev, i) == [ev |-> ev, entry |-> i]

\* a bug Skipped could have: a directory whose name ends in ".tf" is read
Skipped_BySuffixOnly(e) == ~e.tf

\* file.IsDir() and !strings.HasSuffix(file.Name(), ".tf")
Skipped(e) == e.kind = "dir" \/ ~e.tf

\* the update returns with an error
ReturnError ==
    /\ upc' = "returned"
    /\ updateErr' = TRUE

\* os.ReadDir(dir)
ReadDir ==
    /\ upc = "readdir"
    /\ \/ /\ upc' = "loop"
          /\ UNCHANGED updateErr
       \/ ReturnError
    /\ UNCHANGED <<cfgDir, lockFile, dirWritable, update, nextEntry, trail, parsedFile,
                   editFrame>>

\* the head of the loop: the entry is skipped, or os.ReadFile reads it
ReadFile ==
    /\ upc = "loop"
    /\ IF nextEntry > Len(cfgDir)
       THEN /\ upc' = "returned"
            /\ UNCHANGED <<nextEntry, trail, updateErr>>
       ELSE IF Skipped(cfgDir[nextEntry])
       THEN /\ nextEntry' = nextEntry + 1
            /\ UNCHANGED <<upc, trail, updateErr>>
       ELSE /\ trail' = Append(trail, Did("read", nextEntry))
            /\ UNCHANGED nextEntry
            /\ IF cfgDir[nextEntry].readable
               THEN upc' = "parse" /\ UNCHANGED updateErr
               ELSE ReturnError
    /\ UNCHANGED <<cfgDir, lockFile, dirWritable, update, parsedFile, editFrame>>

\* hclwrite.ParseConfig(content, ...)
ParseConfig ==
    /\ upc = "parse"
    /\ IF cfgDir[nextEntry].parses
       THEN /\ parsedFile' = [tree |-> cfgDir[nextEntry].tree, hasChanges |-> FALSE]
            /\ upc' = "visit"
            /\ UNCHANGED updateErr
       ELSE /\ ReturnError
            /\ UNCHANGED parsedFile
    /\ UNCHANGED <<cfgDir, lockFile, dirWritable, update, nextEntry, trail, editFrame>>

\* if src == ".." { src = "../" }
NewSource(src) == IF src = ".." THEN "../" ELSE src

\* a bug Selected could have: the number of labels is not looked at
Selected_FirstLabel(block, module) ==
    block.type = "module" /\ block.labels # <<>> /\ (block.labels[1] = module \/ module = "*")

\* the three tests a block passes before UpdateModuleSourceAndVersionE sets it
Selected(block, module) ==
    block.type = "module" /\ Len(block.labels) = 1 /\ (block.labels[1] = module \/ module = "*")

\* SetAttributeValue("source", src), then "version" is set or removed
SetModule(block, src, ver) ==
    [block EXCEPT !.source = NewSource(src), !.version = IF ver # "" THEN ver ELSE Absent]

\* SetAttributeValue(provider, {version, source}) in every required_providers block nested
\* in a terraform block
SetProvider(block, version, providerSource) ==
    IF block.type # "terraform" THEN block
    ELSE [block EXCEPT !.nested =
            [i \in 1..Len(block.nested) |->
                IF block.nested[i].type = "required_providers"
                THEN [block.nested[i] EXCEPT !.aws = Requirement(version, providerSource)]
                ELSE block.nested[i]]]

HasRequiredProviders(block) ==
    block.type = "terraform"
        /\ \E i \in 1..Len(block.nested) : block.nested[i].type = "required_providers"

\* the callback's loop over f.Body().Blocks(): the tree afterwards and hasChanges
Visited(u, tree) ==
    IF u.fn = "module"
    THEN [tree |-> [i \in 1..Len(tree) |->
                       IF Selected(tree[i], u.module) THEN SetModule(tree[i], u.src, u.ver)
                       ELSE tree[i]],
          hasChanges |-> \E i \in 1..Len(tree) : Selected(tree[i], u.module)]
    ELSE [tree |-> [i \in 1..Len(tree) |-> SetProvider(tree[i], u.version, u.providerSource)],
          hasChanges |-> \E i \in 1..Len(tree) : HasRequiredProviders(tree[i])]

\* fn(filename, f) up to the test of hasChanges
Visit ==
    /\ upc = "visit"
    /\ parsedFile' = Visited(update, parsedFile.tree)
    /\ trail' = Append(trail, Did("visit", nextEntry))
    /\ upc' = "write"
    /\ UNCHANGED <<cfgDir, lockFile, dirWritable, update, nextEntry, updateErr, editFrame>>

\* _ = os.Remove(lockfile) after the write of UpdateProviderVersionE: whether the lock
\* file is there afterwards
RemoveLock(u, lock, writable) ==
    IF u.fn = "provider" /\ writable THEN FALSE ELSE lock

\* if hasChanges { os.WriteFile(filename, f.Bytes(), 0666); ... }; then the next entry
WriteFileBack ==
    /\ upc = "write"
    /\ IF ~parsedFile.hasChanges
       THEN /\ upc' = "loop"
            /\ nextEntry' = nextEntry + 1
            /\ UNCHANGED <<cfgDir, lockFile, trail, updateErr>>
       ELSE IF ~cfgDir[nextEntry].writable
       THEN /\ ReturnError
            /\ trail' = Append(trail, Did("write failed", nextEntry))
            /\ UNCHANGED <<cfgDir, lockFile, nextEntry>>
       ELSE /\ cfgDir' = [cfgDir EXCEPT ![nextEntry].tree = parsedFile.tree]
            /\ trail' = Append(trail, Did("write", nextEntry))
            /\ lockFile' = RemoveLock(update, lockFile, dirWritable)
            /\ upc' = "loop"
            /\ nextEntry' = nextEntry + 1
            /\ UNCHANGED updateErr
    /\ UNCHANGED <<dirWritable, update, parsedFile, editFrame>>

EditNext == ReadDir \/ ReadFile \/ ParseConfig \/ Visit \/ WriteFileBack

EditInit ==
    /\ EnsureIdle /\ CatalogIdle /\ LocalIdle /\ VersionIdle /\ ListIdle
    /\ cfgDir \in Directories
    /\ lockFile \in BOOLEAN
    /\ dirWritable \in BOOLEAN
    /\ update \in Updates
    /\ upc = "readdir"
    /\ nextEntry = 1
    /\ trail = <<>>
    /\ updateErr = FALSE
    /\ parsedFile = NoFile

SpecEdit == EditInit /\ [][EditNext]_vars

\* the strings of ParseInputs with at least three segments, after an optional "v", of
\* which the first two are integers that are not negative
ThreeSegmentsTwoNaturals == {V100, V120, V195, V1100, V200, Vv123, V1200, V12x}

\* C21: parseVersion succeeds only on strings with at least three dot-separated segments
\* (after an optional leading "v") whose first two segments are non-negative integers:
\* every Version returned has major >= 0 and minor >= 0, every other input is an error.
C21_ParseAcceptsNaturalsOnly ==
    (vop = "parsing" /\ vpc = "returned")
        => /\ parsedVersion.ok <=> listing[1] \in ThreeSegmentsTwoNaturals
           /\ parsedVersion.ok => (parsedVersion.Major >= 0 /\ parsedVersion.Minor >= 0)

RECURSIVE Flatten(_)
Flatten(pages) == IF pages = <<>> THEN <<>> ELSE VersionsOf(Head(pages)) \o Flatten(Tail(pages))

\* the requests and pages so far are those of a paging by cursor
PagedByCursor ==
    /\ Len(requested) \in {Len(received), Len(received) + 1}
    /\ requested # <<>> => requested[1] = NoCursor
    /\ \A i \in 2..Len(requested) :
          /\ received[i - 1] # <<>>
          /\ requested[i]
               = Cursor(received[i - 1][Len(received[i - 1])].timestamp_created)
    /\ apc = "returned"
         => /\ received # <<>> /\ received[Len(received)] = <<>>
            /\ Len(requested) = Len(received)
            /\ ~listed.err /\ listed.vers = Flatten(received)

\* C22: GetAvailableVersionsE requests the first page without a cursor and each following
\* page with the cursor set to the timestamp of the last item of the page before it, stops
\* at the first empty page and returns the versions of all received pages in the order
\* received; with a finite index whose pages hold only items after the cursor it terminates.
C22_PagesByCursorAndTerminates ==
    /\ []PagedByCursor
    /\ <>(apc \in {"returned", "failed"})

\* three pages: two with releases, then the empty one
C22_Witness ==
    /\ apc = "returned"
    /\ Len(received) = 3
    /\ Len(received[1]) = PageLimit
    /\ Len(listed.vers) = Len(relIndex)

(***************************************************************************)
(* Config updates: claims C23 to C26.                                      *)
(***************************************************************************)
\* the entries an update is about: not a directory, the name ends in ".tf"
ConfigEntries == {i \in 1..Len(cfgDir) : cfgDir[i].kind # "dir" /\ cfgDir[i].tf}
Succeeded(fn) == update.fn = fn /\ upc = "returned" /\ ~updateErr
Wrote(i) == \E k \in 1..Len(trail) : trail[k] = Did("write", i)

\* a single-label module block the call names
Named(block) ==
    /\ block.type = "module"
    /\ Len(block.labels) = 1
    /\ update.module = "*" \/ block.labels[1] = update.module

ModulesUpdated ==
    Succeeded("module")
        => \A i \in ConfigEntries : \A j \in 1..Len(cfgDir[i].tree) :
              Named(cfgDir[i].tree[j])
                 => /\ cfgDir[i].tree[j].source
                         = (IF update.src = ".." THEN "../" ELSE update.src)
                    /\ cfgDir[i].tree[j].version
                         = (IF update.ver = "" THEN Absent ELSE update.ver)

OtherBlocksKept ==
    update.fn = "module"
        => /\ Len(cfgDir') = Len(cfgDir)
           /\ \A i \in 1..Len(cfgDir) :
                /\ Len(cfgDir'[i].tree) = Len(cfgDir[i].tree)
                /\ \A j \in 1..Len(cfgDir[i].tree) :
                      ~Named(cfgDir[i].tree[j]) => cfgDir'[i].tree[j] = cfgDir[i].tree[j]

\* C23: after UpdateModuleSourceAndVersionE(dir, label, src, ver) succeeds, every
\* single-label module block of the directory's config files whose label is `label` (every
\* one when label is "*") has source = src (".." stored as "../"), has version = ver when
\* ver is not empty and no version when it is; module blocks with another label are
\* unchanged.
C23_NamedModulesUpdated == []ModulesUpdated /\ [][OtherBlocksKept]_vars

C23_Witness ==
    /\ Succeeded("module")
    /\ update.module = "a" /\ update.src = ".." /\ update.ver = ""
    /\ Len(cfgDir) = 2
    /\ cfgDir[1].tree = <<ModuleBlockOf("a", "../", Absent), ModuleBlockOf("b", "registry", Absent)>>
    /\ cfgDir[2].tree = <<ModuleBlockOf("a", "../", Absent), TwoLabelModule>>
    /\ Wrote(1) /\ Wrote(2)

ProvidersUpdated ==
    Succeeded("provider")
        => /\ \A i \in ConfigEntries : \A j \in 1..Len(cfgDir[i].tree) :
                cfgDir[i].tree[j].type = "terraform"
                   => \A n \in 1..Len(cfgDir[i].tree[j].nested) :
                         cfgDir[i].tree[j].nested[n].type = "required_providers"
                            => cfgDir[i].tree[j].nested[n].aws
                                  = Requirement(update.version, update.providerSource)
           /\ (\E i \in 1..Len(cfgDir) : Wrote(i)) => ~lockFile

LockKeptUnlessRewritten ==
    (update.fn = "provider" /\ lockFile /\ ~lockFile')
        => \E i \in 1..Len(cfgDir) : trail' = Append(trail, Did("write", i))

\* C24: whenever UpdateProviderVersionE returns success, every required_providers block
\* nested in a terraform block of the directory maps the provider name to {version, source}
\* as given and, a requirement having been rewritten, no lock file is in the directory;
\* the lock file is left in place when no required_providers block was rewritten.
C24_ProvidersUpdatedLockRemoved == []ProvidersUpdated /\ [][LockKeptUnlessRewritten]_vars

\* C25: a config file is written back only if an attribute of its tree changed: a file
\* whose content is the same after the operation is not written.
C25_WrittenOnlyIfChanged ==
    [][\A i \in 1..Len(cfgDir) :
          trail' = Append(trail, Did("write", i)) => parsedFile.tree # cfgDir[i].tree]_vars

OnlyRegularFilesVisited ==
    \A k \in 1..Len(trail) :
        trail[k].ev = "visit" => (cfgDir[trail[k].entry].kind = "file" /\ cfgDir[trail[k].entry].tf)

\* the trail goes through the entries in order, each read at most once, visited after
\* its read and written after its visit
InDirectoryOrder ==
    /\ \A k \in 1..Len(trail) : trail[k].entry \in ConfigEntries
    /\ \A k, l \in 1..Len(trail) :
          k < l => /\ trail[k].entry <= trail[l].entry
                   /\ trail[k] # trail[l]
                   /\ trail[k].entry = trail[l].entry
                        => \/ trail[k].ev = "read"
                           \/ trail[k].ev = "visit" /\ trail[l].ev \in {"write", "write failed"}
    /\ \A k \in 1..Len(trail) :
          trail[k].ev # "read" => \E l \in 1..(k - 1) : trail[l] = Did("read", trail[k].entry)

FirstErrorReturned ==
    /\ updateErr => upc = "returned"
    /\ \A i \in ConfigEntries :
          (\E k \in 1..Len(trail) : trail[k].entry > i)
              => /\ cfgDir[i].readable /\ cfgDir[i].parses
                 /\ \A k \in 1..Len(trail) : trail[k] # Did("write failed", i)

EachVisitedOnce ==
    (upc = "returned" /\ ~updateErr)
        => \A i \in ConfigEntries :
              Cardinality({k \in 1..Len(trail) : trail[k] = Did("visit", i)}) = 1

NothingAfterReturn == upc = "returned" => UNCHANGED editVars

\* C26 as claimed: IterateTerraformInDirectory visits only the immediate regular files
\* whose name ends in ".tf", one at a time in directory order, returns the first error of
\* a read, a parse or the visit, after which no later file is read, visited or written;
\* when every step succeeds each such file is visited exactly once.
C26_RegularFilesOnly ==
    /\ [](OnlyRegularFilesVisited /\ InDirectoryOrder /\ FirstErrorReturned /\ EachVisitedOnce)
    /\ [][NothingAfterReturn]_vars

\* C26 as amended: the same for the immediate entries that are not directories and whose
\* name ends in ".tf", symbolic links among them.
C26_NonDirectoriesOnly ==
    /\ [](InDirectoryOrder /\ FirstErrorReturned /\ EachVisitedOnce)
    /\ [][NothingAfterReturn]_vars

\* the first file is visited and written, the second cannot be parsed, and the call ends
C26_Witness ==
    /\ upc = "returned" /\ updateErr
    /\ Len(cfgDir) = 2
    /\ trail = <<Did("read", 1), Did("visit", 1), Did("write", 1), Did("read", 2)>>
    /\ ~cfgDir[2].parses

(***************************************************************************)
(* The artifact cache: claim C27.                                          *)
(***************************************************************************)
\* the step is the return of p's call, and the call had created its archive file
ReturnsAfterCreate(p) ==
    /\ Len(log') = Len(log) + 1
    /\ log'[Len(log')].proc = p
    /\ log'[Len(log')].alone
    /\ \/ pc[p] \in {"copy", "open"} /\ lc[p].out # 0
       \/ pc[p] = "defer_close"

\* C27: when an ensure call returns, on the success path and on every failure path after
\* the download started, the temporary archive file and the staging directory the call
\* created no longer exist.
C27_TemporariesGoneOnReturn ==
    [][\A p \in Procs :
          ReturnsAfterCreate(p)
             => /\ ZipPath \notin DOMAIN files'
                /\ ZipExtractPath \notin dirs']_vars

(***************************************************************************)
(* The catalog's lock: claim C28.                                          *)
(***************************************************************************)
Scanning(p) == cpc[p] \in {"r_scan", "r_runlock"}
Rebuilding(p) == cpc[p] \in {"i_glob", "i_make", "i_file", "i_setinit", "i_unlock"}

SharedReadExclusiveWrite ==
    \A p, q \in Procs :
        /\ Rebuilding(p) => ~Scanning(q)
        /\ (Rebuilding(p) /\ Rebuilding(q)) => p = q

\* the list a Resolve scans stays as it was when the Resolve took the lock
ScannedListStable == (\E p \in Procs : Scanning(p)) => Meta' = Meta

\* C28: Resolve and Init follow a shared-read, exclusive-write discipline: Resolve calls
\* may scan at the same time, no Resolve scans the entry list while an Init rebuilds it,
\* no two Inits rebuild at the same time, so a Resolve sees the whole list from before a
\* rebuild or the whole list after it.
C28_SharedReadExclusiveWrite ==
    []SharedReadExclusiveWrite /\ [][ScannedListStable]_vars

\* two Resolve calls scan a rebuilt list at the same time
C28_Witness ==
    /\ \A p \in Procs : cpc[p] = "r_scan"
    /\ rebuilds >= 1
    /\ Meta # <<>>

(***************************************************************************)
(* The localizer's recursion: claims C29 and C30.                          *)
(***************************************************************************)
\* the blocks of a folder's .tf files, file after file
RECURSIVE BlocksOf(_)
BlocksOf(content) ==
    IF content = <<>> THEN <<>>
    ELSE (IF Head(content).kind = "tf" THEN Head(content).blocks ELSE <<>>)
            \o BlocksOf(Tail(content))

\* a single-label module block whose source names a catalog entry
Refers(block) == block.type = "module" /\ block.labels = 1 /\ block.hasSource
                    /\ Resolvable(block.source)

\* the local path of the first catalog entry the source names
TargetOf(src) ==
    LET hits == {i \in 1..Len(repo[root]) :
                    LET m == BuildModule(repo[root][i])
                    IN  <<m.Organisation, m.Name, m.Provider>>
                           = <<src.segs[2], src.segs[3], src.segs[4]>>}
    IN  BuildModule(repo[root][CHOOSE i \in hits : \A j \in hits : i <= j]).LocalPath

\* the folders a folder's blocks refer to, and those reached from it in at most n steps
RefsOf(dir) ==
    {TargetOf(BlocksOf(disk[dir])[k].source) :
        k \in {k \in 1..Len(BlocksOf(disk[dir])) : Refers(BlocksOf(disk[dir])[k])}}
RECURSIVE ReachedIn(_, _)
ReachedIn(dirs0, n) ==
    IF n = 0 THEN dirs0
    ELSE dirs0 \cup ReachedIn(UNION {RefsOf(d) : d \in dirs0}, n - 1)
CatalogSize == Len(repo[root])

\* a catalog entry reachable from the module under test refers back to itself
CatalogCyclic ==
    \E d \in ReachedIn(RefsOf(SrcDir), CatalogSize) : d \in ReachedIn(RefsOf(d), CatalogSize)

\* C29: with a self-referential catalog localization never comes to its end: each level
\* of the recursion makes a new temporary copy and recurses again, no step detects the
\* cycle or bounds the depth.
C29_CycleNeverEnds ==
    CatalogCyclic
        => \A u \in Procs :
              /\ lpc[u] # "done"
              /\ \A k \in 2..Len(stack[u]) :
                    /\ stack[u][k].dir \in TempDirsOf(u)
                    /\ \A j \in 1..(k - 1) : stack[u][j].dir # stack[u][k].dir

\* the recursion is as deep as the run's copies allow, each level in a copy of the entry
\* the level before refers to
C29_Witness ==
    /\ CatalogCyclic
    /\ ncopies[1] = MaxCopies
    /\ Len(stack[1]) = MaxCopies + 1
    /\ \A k \in 1..MaxCopies : stack[1][k + 1].dir = TempDir(1, k)
    /\ lpc[1] = "copy"

\* the copies the depth-first walk from a folder makes: one for each referring block, and
\* those of the walk of its copy
RECURSIVE WalkCopies(_, _)
RECURSIVE WalkBlocks(_, _)
WalkCopies(dir, fuel) == IF fuel = 0 THEN 0 ELSE WalkBlocks(BlocksOf(disk[dir]), fuel)
WalkBlocks(blocks, fuel) ==
    IF blocks = <<>> THEN 0
    ELSE (IF Refers(Head(blocks))
          THEN 1 + WalkCopies(TargetOf(Head(blocks).source), fuel - 1) ELSE 0)
            + WalkBlocks(Tail(blocks), fuel)

Ended == crashed \/ \A u \in active : lpc[u] \in {"done", "fatal", "panicked"}

CopiesAsWalked ==
    \A u \in Procs :
        (~CatalogCyclic /\ lpc[u] = "done") => ncopies[u] = WalkCopies(SrcDir, CatalogSize + 1)

HoldsTemporaries(p) ==
    pc[p] \in {"copy", "open", "mkstaging", "extract", "write", "rename",
               "defer_removeall", "defer_remove", "defer_close"}

\* the archive extracts for the key and (for terraform) holds the binary
UsableFor(k) ==
    /\ \A i \in 1..Len(archive) : ~Escapes(ZipExtractPathOf(k), archive[i])
    /\ kind = "terraform" => \E i \in 1..Len(archive) : archive[i] = <<"terraform">>

\* no two calls in progress have the same archive path or the same staging directory
TemporariesApart ==
    \A p \in Procs : \A q \in Procs :
        (p # q /\ HoldsTemporaries(p) /\ HoldsTemporaries(q))
            => /\ ZipPathOf(asked[p]) # ZipPathOf(asked[q])
               /\ ZipExtractPathOf(asked[p]) # ZipExtractPathOf(asked[q])

\* a call on which nothing failed by itself ends as it ends alone: without error,
\* its artifact complete at its own final path
EndsAsAlone ==
    \A i \in 1..Len(log) :
        (~log[i].fault /\ UsableFor(asked[log[i].proc]))
            => (~log[i].err /\ log[i].published /\ log[i].artifactAfter)

\* C31: concurrent ensure calls for different cache keys, two providers of one
\* version included, never share the temporary archive file or the staging directory,
\* and each call ends with its own artifact at its own final path as if it ran alone.
C31_KeysDoNotInterfere == TemporariesApart /\ EndsAsAlone

(***************************************************************************)
(* The catalog's rebuild: claims C32 to C34.                               *)
(***************************************************************************)
\* the rebuild of p has failed and still holds the lock
RebuildFailed(p) == cpc[p] = "i_unlock" /\ cl[p].err

\* a failed rebuild leaves the entry list as it was when the rebuild took the lock
ListKeptOnFailure == \A p \in Procs : RebuildFailed(p) => Meta = cl[p].meta0

\* the lists that hold all the metadata files of a scan, and the list before any scan
WholeLists == {<<>>} \cup {BuiltFrom(repo[r]) : r \in Roots}

\* whenever a Resolve scans the list, the list is a whole one
WholeListsScanned == \A p \in Procs : cpc[p] = "r_scan" => Meta \in WholeLists

\* no step of a rebuild that fails changes mmc.init
NotMarkedByFailure ==
    \A p \in Procs : (cpc'[p] # cpc[p] /\ cl'[p].op = "Get" /\ cl'[p].err) => init' = init

\* C32: a catalog rebuild that fails (glob error, unreadable or malformed metadata
\* file) leaves the entry list as it was before the call and does not mark the catalog
\* as initialised, and no Resolve ever scans a list that holds only part of the
\* scanned metadata files.
C32_FailedRebuildKeepsList ==
    [](ListKeptOnFailure /\ WholeListsScanned) /\ [][NotMarkedByFailure]_vars

\* a unit that got the catalog resolves against what a later rebuild, failed on the
\* second metadata file of another root, left of the list
PartialListScanned ==
    \E p \in Procs :
        /\ cpc[p] = "r_scan"
        /\ failed
        /\ Meta = <<BuildModule(repo["other"][1])>>
        /\ Len(repo["other"]) = 2

\* a GetModuleMetadataCatalog call goes on to Init exactly when no rebuild has
\* succeeded since the last SetRoot
RebuildsIffNoneSince ==
    \A p \in Procs :
        (cpc[p] = "g_check" /\ cpc'[p] # "g_check")
            => (cpc'[p] = "i_lock" <=> builtSince = 0)

\* a call that returns without error returns the catalog built from the current root
ReturnsCurrentCatalog ==
    \A p \in Procs :
        (cpc[p] # "idle" /\ cpc'[p] = "idle" /\ cl'[p].op = "Get" /\ ~cl'[p].err)
            => (init' /\ Meta' = BuiltFrom(repo[root']))

\* C33: in a sequential run of SetRoot and GetModuleMetadataCatalog calls, a call
\* rebuilds the catalog if and only if no rebuild has succeeded since the last SetRoot
\* (or since the start), a successful call returns a catalog built from the current
\* root, and calls with no SetRoot in between rebuild only once.
C33_RebuildsOncePerRoot ==
    /\ [][RebuildsIffNoneSince /\ ReturnsCurrentCatalog]_vars
    /\ [](builtSince <= 1)

\* after a SetRoot the catalog was rebuilt, and a later call returned it as it was
C33_Witness ==
    /\ setroots = 1 /\ root = "other"
    /\ rebuilds = 2 /\ builtSince = 1
    /\ Meta = BuiltFrom(repo["other"])
    /\ \E p \in Procs : cl[p].op = "Get" /\ cl[p].done /\ ~cl[p].tookLock /\ ~cl[p].err

\* the shared fields the next step of p reads: mmc.init in GetModuleMetadataCatalog,
\* mmc.root in Init's pattern, mmc.Meta in Resolve's loop and in Init's append
Reads(p) ==
    CASE cpc[p] = "g_check" -> {"init"}
      [] cpc[p] = "i_glob" -> {"root"}
      [] cpc[p] = "r_scan" -> {"Meta"}
      [] cpc[p] = "i_file" /\ cl[p].midx <= Len(cl[p].matches) -> {"Meta"}
      [] OTHER -> {}

\* the shared fields the next step of p writes: mmc.Meta and mmc.init in Init
Writes(p) ==
    CASE cpc[p] = "i_make" -> {"Meta"}
      [] cpc[p] = "i_file" /\ cl[p].midx <= Len(cl[p].matches) -> {"Meta"}
      [] cpc[p] = "i_setinit" -> {"init"}
      [] OTHER -> {}

\* p holds the lock in the mode its next step needs
LockedForReads(p) == Reads(p) # {} => (p \in mx.readers \/ mx.writer = p)
LockedForWrites(p) == Writes(p) # {} => mx.writer = p

\* no unit is at an access without the lock to a field another unit is at a write of
NoUnlockedAccessToWrittenField ==
    \A p \in Procs : \A q \in Procs \ {p} :
        /\ ~LockedForReads(p) => Reads(p) \cap Writes(q) = {}
        /\ ~LockedForWrites(p) => Writes(p) \cap Writes(q) = {}

\* SetRoot writes mmc.root and mmc.init, and takes no lock: no unit is at an access of
\* either when it does
SetRootApart ==
    setroots' # setroots
        => \A q \in Procs : (Reads(q) \cup Writes(q)) \cap {"root", "init"} = {}

\* C34: every read and every write of the catalog's shared fields (the entry list,
\* the initialised flag, the root) by concurrent units is made with the catalog lock
\* held in the matching mode: no interleaving of GetModuleMetadataCatalog, Init,
\* SetRoot and Resolve has an access without the lock to a field that another unit is
\* writing.
C34_AccessesUnderLock == []NoUnlockedAccessToWrittenField /\ [][SetRootApart]_vars

====
